---------------------------- MODULE Spec2Model ----------------------------
(***************************************************************************)
(* Permanent-magnet optimization core of simsopt                          *)
(* (src/src/simsopt/solve/permanent_magnet_optimization.py):               *)
(* the proximal / projection operators, setup_initial_condition and the   *)
(* relax_and_split orchestrator, as a state machine over one               *)
(* PermanentMagnetGrid object pm_opt.                                      *)
(*                                                                         *)
(* Numbers.  Every quantity is an exact rational held as an integer count  *)
(* of a unit:                                                              *)
(*   - dipole moments, the bounds m_maxima and epsilon_RS: one moment      *)
(*     unit.  The unit is far above the tolerance of np.allclose           *)
(*     (1e-8 + 1e-5*|b|), so on this grid two values are "close" exactly   *)
(*     when they are equal;                                                *)
(*   - reg_l0, reg_l1: units of 1e-16, the atol of the np.isclose tests    *)
(*     of line 203-208, so RegATol is 1 and a reg of 1 is a non-zero value *)
(*     that np.isclose still takes for zero;                               *)
(*   - nu: units of 1e16 / NuDen, so reg * nu = (r * n) / NuDen.           *)
(* The bounds m_maxima are multiples of NuDen, which keeps the soft        *)
(* threshold of prox_l1 on the integer grid.                               *)
(* Arrays are flat sequences in numpy's row-major order: site i of an      *)
(* (ndipoles, 3) array holds the entries 3(i-1)+1 .. 3i.                   *)
(***************************************************************************)
EXTENDS Integers, Sequences, FiniteSets, TLC

\* ------------------------------------------------------------ bounds
\* Denominator of the unit of nu (resolution of reg * nu).
NuDen == 8
\* Largest max_iter_RS passed to relax_and_split.
MaxIterRS == 2

\* ------------------------------------------------- program constants
\* atol of np.isclose(reg, 0.0, atol=1e-16), in units of 1e-16.
RegATol == 1
\* nu = 1e100 when the caller gives none: beyond every threshold the
\* bounded moments can meet, as 1e100 is.
NuDefault == 1000000
\* components of one dipole moment (the reshape(ndipoles, 3)).
Dim == 3

\* ------------------------------------------------------ the grid
\* pm_opt.m_maxima: one positive bound per dipole site.
M_Maxima == <<NuDen, 2 * NuDen>>
\* pm_opt.ndipoles
ndipoles == Len(M_Maxima)

\* -------------------------------------------------- array helpers
Abs(x) == IF x < 0 THEN -x ELSE x
Sign(x) == IF x > 0 THEN 1 ELSE IF x < 0 THEN -1 ELSE 0
Max(a, b) == IF a >= b THEN a ELSE b
Zeros(n) == [k \in 1..n |-> 0]
\* the site (row of the (N, 3) reshape) that flat index k belongs to
SiteOf(k) == ((k - 1) \div Dim) + 1
\* the flat indices of site i
SiteIdx(i) == (Dim * (i - 1) + 1) .. (Dim * i)
\* np.array([mmax, mmax, mmax]).T raveled: the bound of each flat entry
mmax_vec(mmax) == [k \in 1..(Dim * Len(mmax)) |-> mmax[SiteOf(k)]]

\* f[1] + ... + f[n]
RECURSIVE SumTo(_, _)
SumTo(f, n) == IF n = 0 THEN 0 ELSE f[n] + SumTo(f, n - 1)

\* np.sum(x_shaped ** 2, axis=-1)[i]
SiteSumSq(x, i) ==
  SumTo([j \in 1..Dim |-> x[Dim * (i - 1) + j] * x[Dim * (i - 1) + j]], Dim)
\* ||a - b||^2 for flat arrays of one length
DistSq(a, b) ==
  SumTo([k \in 1..Len(a) |-> (a[k] - b[k]) * (a[k] - b[k])], Len(a))

\* ------------------------------------------- proximal operators
\* nan as an array entry: a value that no moment, bound or threshold of the
\* model takes.  Arithmetic never reaches it: every operator below and
\* every norm tests for it first, as nan propagates through numpy.
NaN == -2147483647
HasNaN(x) == \E k \in 1..Len(x) : x[k] = NaN

\* m_normalized > 2 * reg_l0 * nu for an entry m under the bound b:
\* |m| / b compared in units of 1 / NuDen, the comparison turned for a
\* negative b; under b = 0 the quotient is inf (true) or, for m = 0, nan
\* (false).
AboveThreshold(m, b, reg_l0, nu) ==
  IF b > 0 THEN Abs(m) * NuDen > 2 * reg_l0 * nu * b
  ELSE IF b < 0 THEN Abs(m) * NuDen < 2 * reg_l0 * nu * b
  ELSE m # 0

\* prox_l0: m * (|m| / mmax_vec > 2 * reg_l0 * nu), entry by entry.
prox_l0(m, mmax, reg_l0, nu) ==
  [k \in 1..Len(m) |->
     IF m[k] = NaN THEN NaN
     ELSE IF AboveThreshold(m[k], mmax_vec(mmax)[k], reg_l0, nu)
     THEN m[k] ELSE 0]

\* faulty variant: the soft threshold subtracted without the floor at 0
prox_l1_unfloored(m, mmax, reg_l1, nu) ==
  [k \in 1..Len(m) |->
     IF m[k] = NaN \/ mmax_vec(mmax)[k] = 0 THEN NaN
     ELSE Sign(m[k]) * Sign(mmax_vec(mmax)[k])
            * ((Abs(m[k]) * NuDen - reg_l1 * nu * Abs(mmax_vec(mmax)[k]))
                 \div NuDen)]

\* faulty variant: the soft threshold added instead of subtracted
prox_l1_plus(m, mmax, reg_l1, nu) ==
  [k \in 1..Len(m) |->
     IF m[k] = NaN \/ mmax_vec(mmax)[k] = 0 THEN NaN
     ELSE Sign(m[k]) * Sign(mmax_vec(mmax)[k])
            * (Max(Abs(m[k]) * NuDen
                     + reg_l1 * nu * Abs(mmax_vec(mmax)[k]), 0)
                 \div NuDen)]

\* prox_l1: sign(m) * max(||m| / mmax_vec| - reg_l1 * nu, 0) * mmax_vec.
\* Under a bound of 0 the quotient is inf or nan and the product with
\* the bound is nan; a negative bound turns the sign of the entry.
prox_l1(m, mmax, reg_l1, nu) ==
  [k \in 1..Len(m) |->
     IF m[k] = NaN \/ mmax_vec(mmax)[k] = 0 THEN NaN
     ELSE Sign(m[k]) * Sign(mmax_vec(mmax)[k])
            * (Max(Abs(m[k]) * NuDen
                     - reg_l1 * nu * Abs(mmax_vec(mmax)[k]), 0)
                 \div NuDen)]

\* ---------------------------------------- projection onto the L2 balls
(***************************************************************************)
(* projection_L2_balls divides each site by max(1, |x_i| / mmax[i]), and   *)
(* |x_i| is a square root.  To keep the result exact, a real array is held *)
(* as [v, num, den2]: entry k of site i is v[k] * num[i] / sqrt(den2[i]),  *)
(* with num[i] >= 0 and den2[i] >= 0.  An integer array is the case        *)
(* num = den2 = 1; a site with den2[i] = 0 holds nan (the 0 / 0 of a zero  *)
(* site under a zero bound).                                               *)
(***************************************************************************)
Exact(x) ==
  [v |-> x,
   num |-> [i \in 1..(Len(x) \div Dim) |-> 1],
   den2 |-> [i \in 1..(Len(x) \div Dim) |-> 1]]

\* faulty variant: the norm taken without its square root: sum(x_i ** 2) / mmax[i] > 1
DenomFacAboveOne_no_sqrt(x, mmax, i) ==
  SiteSumSq(x.v, i) * x.num[i] * x.num[i] > mmax[i] * x.den2[i]

\* denom_fac[i] is nan: 0 / 0, or the norm of a nan site
DenomFacNaN(x, mmax, i) ==
  \/ x.den2[i] = 0
  \/ mmax[i] = 0 /\ SiteSumSq(x.v, i) * x.num[i] = 0

\* denom_fac[i] > 1, i.e. sqrt(sum(x_i ** 2)) / mmax[i] > 1, squared for
\* mmax[i] >= 0 (a negative bound makes denom_fac <= 0): the site where
\* np.maximum(1, denom_fac) picks denom_fac.
DenomFacAboveOne(x, mmax, i) ==
  /\ mmax[i] >= 0
  /\ SiteSumSq(x.v, i) * x.num[i] * x.num[i] > mmax[i] * mmax[i] * x.den2[i]

\* faulty variant: x divided by sum(x_i ** 2) / mmax[i], the square root forgotten
projection_L2_balls_no_sqrt(x, mmax) ==
  LET N == Len(x.v) \div Dim IN
  [v |-> x.v,
   num |-> [i \in 1..N |->
              IF DenomFacAboveOne(x, mmax, i) THEN mmax[i] * x.den2[i]
              ELSE x.num[i]],
   den2 |-> [i \in 1..N |->
              IF DenomFacAboveOne(x, mmax, i)
              THEN SiteSumSq(x.v, i) * SiteSumSq(x.v, i) * x.num[i] * x.num[i]
                     * x.den2[i]
              ELSE x.den2[i]]]

\* x_shaped / denom: a site with denom = 1 is kept, a site with
\* denom = |x_i| / mmax[i] becomes x_i * mmax[i] / |x_i| = v * mmax[i] / sqrt(v.v),
\* and a site with denom = nan becomes nan.
projection_L2_balls(x, mmax) ==
  LET N == Len(x.v) \div Dim IN
  [v |-> x.v,
   num |-> [i \in 1..N |->
              IF DenomFacNaN(x, mmax, i) THEN 0
              ELSE IF DenomFacAboveOne(x, mmax, i) THEN mmax[i] ELSE x.num[i]],
   den2 |-> [i \in 1..N |->
              IF DenomFacNaN(x, mmax, i) THEN 0
              ELSE IF DenomFacAboveOne(x, mmax, i) THEN SiteSumSq(x.v, i)
              ELSE x.den2[i]]]

\* the sign of entry k of a real array
EntrySign(a, k) == Sign(a.v[k]) * Sign(a.num[SiteOf(k)])

\* equality of entry j of a and entry k of b: neither is nan, same sign,
\* same square
RealEq(a, j, b, k) ==
  LET ia == SiteOf(j)
      ib == SiteOf(k)
  IN
  /\ a.den2[ia] # 0
  /\ b.den2[ib] # 0
  /\ EntrySign(a, j) = EntrySign(b, k)
  /\ a.v[j] * a.v[j] * a.num[ia] * a.num[ia] * b.den2[ib]
       = b.v[k] * b.v[k] * b.num[ib] * b.num[ib] * a.den2[ia]

\* equality of the real entries k of a and b
RealEntryEq(a, b, k) == RealEq(a, k, b, k)

\* np.allclose(a, b) on the moment grid (tolerance below the grid step)
AllClose(a, b) ==
  /\ Len(a.v) = Len(b.v)
  /\ \A k \in 1..Len(a.v) : RealEntryEq(a, b, k)

\* np.allclose(a, b) for an a of shape (n, 1, ...) against the 1-D b of
\* length n: numpy broadcasts the pair to (n, ..., n) and compares every
\* entry of a with every entry of b
AllCloseOuter(a, b) ==
  \A j \in 1..Len(a.v) : \A k \in 1..Len(b.v) : RealEq(a, j, b, k)

\* x lies inside every L2 ball, |x_i| <= mmax[i] at every site, as the
\* specification requires of the m the convex solver returns (section 8);
\* the ball of a negative bound is empty.  This is the set itself, not the
\* test of line 107, from which it differs where a bound is not positive.
Feasible(x, mmax) ==
  \A i \in 1..Len(mmax) :
    mmax[i] >= 0 /\ SiteSumSq(x, i) <= mmax[i] * mmax[i]

\* ------------------------------------------------------ the state
VARIABLES
  pm_m0,            \* pm_opt.m0: the initial guess kept on the grid object
  pm_m,             \* pm_opt.m
  pm_m_proxy,       \* pm_opt.m_proxy
  pc,               \* where the running relax_and_split call stands
  kwargs,           \* **kwargs of the running (or last) call
  m0_arg,           \* its m0 argument
  reg_rs,           \* locals of relax_and_split ...
  prox,
  nu,
  m,
  m_proxy,
  i,
  errors,
  m_history,
  m_proxy_history,
  solve_args,       \* (m_proxy, m0) handed to each convex_step, in order
  n_prox,           \* prox evaluations of the call
  outcome,          \* "none" | "running" | "returned" | the exception raised
  raised_at,        \* what raised it
  stop,             \* how the call left its optimization branch
  proj_x,           \* projection check: the integer input array
  proj_mmax,        \*   its bounds
  proj_y,           \*   the successive projections computed so far
  px_m,             \* prox check: the moment array handed to the operators
  px_reg,           \*   the regularization strength
  px_nu,            \*   the relaxation weight
  px_l0,            \*   <<prox_l0(...)>> once computed
  px_l1,            \*   <<prox_l1(...)>> once computed
  pm_grid,          \* GPMO: the objective model held by pm_opt
  algorithm,        \*   the algorithm argument of the call
  algorithm_kwargs, \*   its keyword arguments, as the call has changed them
  gp_call,          \*   <<algorithm, algorithm_kwargs>> as the caller gave them
  gp_outcome,       \*   "none" | "running" | "returned" | the exception raised
  gp_raised_at,     \*   what raised it
  gp_warned,        \*   warnings.warn was called
  gp_kernel,        \*   the sopp kernel invocations of the call, in order
  k_x,              \*   kernel: the unit moments, flat (3 * ndipoles)
  k_resid,          \*   kernel: the residual, updated at each commit
  k_step,           \*   kernel: commits done
  k_hist,           \*   kernel: the checkpoints recorded so far
  k_trace,          \*   kernel: the tracked error at the start and after each commit
  gp_ret,           \*   <<(errors, Bn_errors, m_history)>> once returned
  gp_prev           \*   result of the run before, if a baseline run of the same call

pm_vars == <<pm_m0, pm_m, pm_m_proxy>>
local_vars == <<reg_rs, prox, nu, m, m_proxy, i, errors, m_history,
                m_proxy_history, solve_args, n_prox>>
proj_vars == <<proj_x, proj_mmax, proj_y>>
px_vars == <<px_m, px_reg, px_nu, px_l0, px_l1>>
kernel_vars == <<k_x, k_resid, k_step, k_hist, k_trace>>
gp_vars == <<pm_grid, algorithm, algorithm_kwargs, gp_call, gp_outcome,
             gp_raised_at, gp_warned, gp_kernel, k_x, k_resid, k_step, k_hist,
             k_trace, gp_ret, gp_prev>>
vars == <<pm_m0, pm_m, pm_m_proxy, pc, kwargs, m0_arg, reg_rs, prox, nu, m,
          m_proxy, i, errors, m_history, m_proxy_history, solve_args,
          n_prox, outcome, raised_at, stop, proj_x, proj_mmax, proj_y,
          px_m, px_reg, px_nu, px_l0, px_l1, pm_grid, algorithm,
          algorithm_kwargs, gp_call, gp_outcome, gp_raised_at, gp_warned,
          gp_kernel, k_x, k_resid, k_step, k_hist, k_trace, gp_ret, gp_prev>>

\* ------------------------------------------------------ the inputs
\* An optional value (a key of kwargs that may be missing, an argument
\* that may be None): <<>> when missing, <<v>> when given.
Opt(S) == {<<>>} \cup {<<v>> : v \in S}
Given(o) == o # <<>>
\* kwargs[key] if key in kwargs.keys() else default
KwGet(kw, key, default) == IF Given(kw[key]) THEN kw[key][1] ELSE default

\* a numpy array: its shape and its entries in row-major order
Array1(x) == [shape |-> <<Len(x)>>, data |-> x]
Array2(rows, cols, x) == [shape |-> <<rows, cols>>, data |-> x]
\* faulty variant: a.size, the number of entries, in place of len(a)
PyLen_size(a) == Len(a.data)
\* len(a): the first dimension
PyLen(a) == a.shape[1]

\* moments used as inputs and as solver results, for the bounds M_Maxima:
\* a point on the boundary of both balls ...
BoundaryMoment ==
  <<M_Maxima[1], 0, 0, 0, 0, -M_Maxima[2]>>
\* ... a point inside both, with entries above and at half of the bound ...
InteriorMoment ==
  <<(3 * M_Maxima[1]) \div 4, -(M_Maxima[1] \div 2), 0,
    0, 0, (3 * M_Maxima[2]) \div 4>>
\* ... np.ones(3 * ndipoles) * mmax_vec, outside both (test_pm_grid.py:155)
CornerMoment == mmax_vec(M_Maxima)
\* ... and a guess that only the last site pushes out of bounds.
LastSiteOutMoment ==
  <<0, 0, 0, M_Maxima[2], M_Maxima[2] \div 2, 0>>

\* The guesses handed to relax_and_split and to setup_initial_condition;
\* the last is InteriorMoment as a column, m0.reshape(-1, 1).  Every guess
\* among them that passes the checks is one-dimensional, so pm_opt.m0 is
\* held as its entries.
M0Args ==
  { <<>>,
    <<Array1(Zeros(Dim * ndipoles))>>,
    <<Array1(InteriorMoment)>>,
    <<Array1(CornerMoment)>>,
    <<Array1(LastSiteOutMoment)>>,
    <<Array1(Zeros((Dim * ndipoles) \div 2))>>,
    <<Array2(ndipoles, Dim, CornerMoment)>>,
    <<Array2(Dim * ndipoles, 1, InteriorMoment)>> }

\* reg_l0 / reg_l1 in units of 1e-16: beyond the tolerance and within it
RegValues == {-2, -1, 0, 1, 2}
NuValues == {1}
EpsValues == {1, M_Maxima[1] \div 2}

\* kwargs with the given entries
Kw(l0, l1, n, it, eps) ==
  [reg_l0 |-> l0, reg_l1 |-> l1, nu |-> n, max_iter_RS |-> it,
   epsilon_RS |-> eps]

\* The calls made on pm_opt, (kwargs, m0):
\*   every choice of reg_l0 / reg_l1 with nothing else given;
RegCalls ==
  {<<Kw(a, b, <<>>, <<>>, <<>>), <<>>>> : a \in Opt(RegValues), b \in Opt(RegValues)}
\*   L0 or L1 regularization with every choice of the loop's parameters, and
\*   the same parameters with no regularization or with a reg_l0 below atol;
LoopCalls ==
  {<<Kw(r[1], r[2], n, <<it>>, eps), <<>>>> :
     r \in {<<<<2>>, <<>>>>, <<<<>>, <<2>>>>}, n \in Opt(NuValues),
     it \in 0..MaxIterRS, eps \in Opt(EpsValues)}
  \cup
  {<<Kw(r[1], r[2], <<1>>, <<MaxIterRS>>, <<1>>), <<>>>> :
     r \in {<<<<>>, <<>>>>, <<<<1>>, <<2>>>>, <<<<2>>, <<1>>>>}}
\*   every initial guess, without regularization, with both regularizations
\*   and with a regularized loop.
GuessCalls ==
  {<<kw, g>> :
     kw \in {Kw(<<>>, <<>>, <<>>, <<>>, <<>>),
             Kw(<<2>>, <<2>>, <<>>, <<>>, <<>>),
             Kw(<<2>>, <<>>, <<1>>, <<MaxIterRS>>, <<1>>),
             Kw(<<>>, <<2>>, <<1>>, <<0>>, <<1>>)},
     g \in M0Args}
Calls == RegCalls \cup LoopCalls \cup GuessCalls

NoKwargs ==
  [reg_l0 |-> <<>>, reg_l1 |-> <<>>, nu |-> <<>>, max_iter_RS |-> <<>>,
   epsilon_RS |-> <<>>]

\* ------------------------------------------------ the objective model
\* Objective models: A_obj with one row per field point and one column per
\* moment component, b_obj, and m_maxima.
UnitRow(n, k) == [j \in 1..n |-> IF j = k THEN 1 ELSE 0]
\* four sites, A the identity on their x components, site 2 alone fits b
ToyModel ==
  [A_obj |-> [f \in 1..4 |-> UnitRow(4 * Dim, Dim * (f - 1) + 1)],
   b_obj |-> <<0, 1, 0, 0>>,
   m_maxima |-> <<1, 1, 1, 1>>]
\* two sites with bounds 2 and 3 that fit b together
ScaledModel ==
  [A_obj |-> <<UnitRow(2 * Dim, 1), UnitRow(2 * Dim, 5)>>,
   b_obj |-> <<2, -3>>,
   m_maxima |-> <<2, 3>>]
\* two sites that reduce the residual equally
TieModel ==
  [A_obj |-> <<UnitRow(2 * Dim, 1), UnitRow(2 * Dim, 4)>>,
   b_obj |-> <<1, 1>>,
   m_maxima |-> <<1, 1>>]
\* two sites, every component of each seen by one field point
DenseModel ==
  [A_obj |-> <<<<1, 1, 1, 0, 0, 0>>, <<0, 0, 0, 1, 1, 1>>>>,
   b_obj |-> <<1, 0>>,
   m_maxima |-> <<1, 1>>]
Models == {ToyModel, ScaledModel, TieModel, DenseModel}

\* pm_opt as GPMO reads it: the model, coordinate_flag, and whether
\* geo_setup has run (hasattr(pm_opt, "A_obj"))
Grid(md, flag, setup) ==
  [A_obj |-> md.A_obj, b_obj |-> md.b_obj, m_maxima |-> md.m_maxima,
   coordinate_flag |-> flag, has_A_obj |-> setup]
Grids ==
  {Grid(md, flag, TRUE) : md \in Models, flag \in {"cartesian", "cylindrical"}}
    \cup {Grid(ToyModel, "cartesian", FALSE)}

\* the model relax_and_split is run on: two sites with the bounds M_Maxima
RSModel ==
  [A_obj |-> <<<<1, 1, 1, 0, 0, 0>>, <<0, 0, 0, 1, 1, 1>>>>,
   b_obj |-> <<1, 0>>,
   m_maxima |-> M_Maxima]
\* the same model with a bound that is not positive: site 2 has bound 0
ZeroBoundModel == [RSModel EXCEPT !.m_maxima = <<M_Maxima[1], 0>>]
\* pm_opt after geo_setup on RSModel
RSGrid == Grid(RSModel, "cartesian", TRUE)

\* pm_opt.ndipoles of the grid
GridN == Len(pm_grid.m_maxima)

\* ------------------------------------------------ the convex solver
(***************************************************************************)
(* sopp.MwPGP_algorithm is compiled code outside these sources.  From the  *)
(* specification (section 4.2): it returns a convergence history, its      *)
(* checkpointed iterates and a final m inside every L2 ball; the history   *)
(* array is zero wherever no error was recorded.  Which feasible m it      *)
(* returns depends on A and b, which are not modelled: any is possible.    *)
(***************************************************************************)
SolverIterates == {Zeros(Dim * ndipoles), BoundaryMoment, InteriorMoment}
SolverHistories == {<<0, 0, 0>>, <<5, 3, 0>>}
MwPGP_algorithm(m_proxy_in, m0_in) ==
  {[algorithm_history |-> h, m_history |-> <<x>>, m |-> x] :
     h \in SolverHistories,
     x \in {y \in SolverIterates : Feasible(y, pm_grid.m_maxima)}}

\* algorithm_history[algorithm_history != 0]
NonZero(h) == SelectSeq(h, LAMBDA e : e # 0)

\* ------------------------------------------------- relax_and_split
\* faulty variant: an atol of 2e-16 in place of 1e-16
IsCloseZero_atol2(reg) == Abs(reg) <= 2 * RegATol
\* np.isclose(reg, 0.0, atol=1e-16)
IsCloseZero(reg) == Abs(reg) <= RegATol

\* prox(m, mmax, reg_rs, nu) for the operator bound at line 206 / 209
Prox(which, x, mmax, reg, nu_) ==
  IF which = "prox_l0" THEN prox_l0(x, mmax, reg, nu_)
  ELSE prox_l1(x, mmax, reg, nu_)

\* setup_initial_condition(pm_opt, m0): "shape" and "bounds" are its two
\* ValueErrors, "reshape" the ValueError of x.reshape(N, 3) at line 75 on
\* an array of more than 3 * N entries, "ok" stores m0 in pm_opt.m0.  The
\* projection returns a 1-D array, against which np.allclose broadcasts
\* an m0 of more than one dimension.
setup_initial_condition(m0) ==
  IF PyLen(m0) # GridN * Dim THEN "shape"
  ELSE IF Len(m0.data) # Dim * (PyLen(m0) \div Dim) THEN "reshape"
  ELSE IF Len(m0.shape) = 1
          /\ ~AllClose(Exact(m0.data),
                       projection_L2_balls(Exact(m0.data), pm_grid.m_maxima))
       THEN "bounds"
  ELSE IF Len(m0.shape) > 1
          /\ ~AllCloseOuter(Exact(m0.data),
                       projection_L2_balls(Exact(m0.data), pm_grid.m_maxima))
       THEN "bounds"
  ELSE "ok"

\* faulty variant: the early-termination test with <= in place of <
NormBelow_or_equal(a, b, eps) ==
  /\ ~HasNaN(a) /\ ~HasNaN(b)
  /\ eps >= 0 /\ DistSq(a, b) <= eps * eps
\* np.linalg.norm(a - b) < eps: false when the norm is nan
NormBelow(a, b, eps) ==
  /\ ~HasNaN(a) /\ ~HasNaN(b)
  /\ eps > 0 /\ DistSq(a, b) < eps * eps

\* the histories and iterates as lines 177-179 leave them
ResetLocals ==
  /\ m' = <<>>
  /\ m_proxy' = <<>>
  /\ i' = 0
  /\ errors' = <<>>
  /\ m_history' = <<>>
  /\ m_proxy_history' = <<>>
  /\ solve_args' = <<>>
  /\ n_prox' = 0

\* lines 193-210: the regularization chosen by reg_l0 / reg_l1
BothRegs(kw) ==
  /\ ~IsCloseZero(KwGet(kw, "reg_l0", 0))
  /\ ~IsCloseZero(KwGet(kw, "reg_l1", 0))
ChosenProx(kw) ==
  IF ~IsCloseZero(KwGet(kw, "reg_l0", 0)) THEN "prox_l0"
  ELSE IF ~IsCloseZero(KwGet(kw, "reg_l1", 0)) THEN "prox_l1"
  ELSE "unbound"
\* faulty variant: the strength taken as the magnitude of the regularization
ChosenReg_abs(kw) ==
  IF ~IsCloseZero(KwGet(kw, "reg_l0", 0)) THEN Abs(KwGet(kw, "reg_l0", 0))
  ELSE IF ~IsCloseZero(KwGet(kw, "reg_l1", 0)) THEN Abs(KwGet(kw, "reg_l1", 0))
  ELSE 0
\* reg_rs as lines 187 and 205-210 leave it
ChosenReg(kw) ==
  IF ~IsCloseZero(KwGet(kw, "reg_l0", 0)) THEN KwGet(kw, "reg_l0", 0)
  ELSE IF ~IsCloseZero(KwGet(kw, "reg_l1", 0)) THEN KwGet(kw, "reg_l1", 0)
  ELSE 0

\* the ValueError a call raises before it touches pm_opt, "" for none
CallError(kw, m0) ==
  IF ~pm_grid.has_A_obj THEN "A_obj"
  ELSE IF BothRegs(kw) THEN "L0L1"
  ELSE IF Given(m0) /\ setup_initial_condition(m0[1]) # "ok"
       THEN setup_initial_condition(m0[1])
  ELSE ""

\* relax_and_split(pm_opt, m0, **kw) raising at line 164, at line 204 or
\* out of setup_initial_condition (line 215).  At line 164 no local is
\* bound yet (reg_rs, prox and nu keep their initial readings), at line
\* 204 nu is bound by lines 188-191, reg_rs is the 0.0 of line 187 and no
\* prox is bound; by line 215 the branch of lines 205-210 has bound both.
CallRejected(kw, m0) ==
  /\ pc = "Idle"
  /\ CallError(kw, m0) # ""
  /\ kwargs' = kw
  /\ m0_arg' = m0
  /\ ResetLocals
  /\ reg_rs' = IF CallError(kw, m0) \in {"A_obj", "L0L1"} THEN 0
               ELSE ChosenReg(kw)
  /\ prox' = IF CallError(kw, m0) \in {"A_obj", "L0L1"} THEN "unbound"
             ELSE ChosenProx(kw)
  /\ nu' = IF CallError(kw, m0) = "A_obj" THEN NuDefault
            ELSE KwGet(kw, "nu", NuDefault)
  /\ outcome' = "ValueError"
  /\ raised_at' = CallError(kw, m0)
  /\ stop' = ""
  /\ pc' = "Idle"
  /\ UNCHANGED <<pm_vars, proj_vars, px_vars, gp_vars>>

\* relax_and_split up to the branch of line 229: lines 163-231, and the
\* range(kwargs['max_iter_RS']) of line 232
CallAccepted(kw, m0) ==
  LET start == IF Given(m0) THEN m0[1].data ELSE pm_m0
      rs == ChosenReg(kw)
      nu_ == KwGet(kw, "nu", NuDefault)
  IN
  /\ pc = "Idle"
  /\ CallError(kw, m0) = ""
  /\ kwargs' = kw
  /\ m0_arg' = m0
  /\ pm_m0' = start
  /\ reg_rs' = rs
  /\ prox' = ChosenProx(kw)
  /\ nu' = nu_
  /\ m' = IF rs > 0 THEN start ELSE <<>>
  /\ m_proxy' = IF rs > 0
                THEN Prox(ChosenProx(kw), start, pm_grid.m_maxima, rs, nu_)
                ELSE start
  /\ n_prox' = IF rs > 0 THEN 1 ELSE 0
  /\ i' = 0
  /\ errors' = <<>>
  /\ m_history' = <<>>
  /\ m_proxy_history' = <<>>
  /\ solve_args' = <<>>
  /\ stop' = ""
  /\ IF rs > 0 /\ ~Given(kw.max_iter_RS)
     THEN /\ outcome' = "KeyError"
          /\ raised_at' = "max_iter_RS"
          /\ pc' = "Idle"
     ELSE /\ outcome' = "running"
          /\ raised_at' = ""
          /\ pc' = IF rs > 0
                   THEN (IF kw.max_iter_RS[1] > 0 THEN "ConvexStep"
                         ELSE "MaxIterReached")
                   ELSE "SingleConvex"
  /\ UNCHANGED <<pm_m, pm_m_proxy, proj_vars, px_vars, gp_vars>>

\* setup_initial_condition(pm_opt, m0) called on its own (it is public,
\* line 5) between two optimization calls: line 112 is its only write.
\* A call that raises, or one with m0 = None, changes nothing.
SetupInitialCondition(m0) ==
  /\ pc = "Idle"
  /\ Given(m0)
  /\ setup_initial_condition(m0[1]) = "ok"
  /\ pm_m0' = m0[1].data
  /\ UNCHANGED <<pm_m, pm_m_proxy, pc, kwargs, m0_arg, local_vars, outcome,
                 raised_at, stop, proj_vars, px_vars, gp_vars>>

\* faulty variant: every convex_step of the loop started from pm_opt.m0
ConvexStep_cold_start ==
  /\ pc = "ConvexStep"
  /\ \E r \in MwPGP_algorithm(m_proxy, pm_m0) :
       /\ solve_args' = Append(solve_args, [m_proxy |-> m_proxy, m0 |-> pm_m0])
       /\ m_history' = Append(m_history, r.m)
       /\ m' = r.m
       /\ IF NonZero(r.algorithm_history) = <<>>
          THEN /\ outcome' = "IndexError"
               /\ raised_at' = "algorithm_history"
               /\ pc' = "Idle"
               /\ errors' = errors
          ELSE /\ errors' = Append(errors,
                     NonZero(r.algorithm_history)[Len(NonZero(r.algorithm_history))])
               /\ pc' = "ProxStep"
               /\ UNCHANGED <<outcome, raised_at>>
  /\ UNCHANGED <<pm_vars, kwargs, m0_arg, reg_rs, prox, nu, m_proxy, i,
                 m_proxy_history, n_prox, stop, proj_vars, px_vars, gp_vars>>

\* lines 234-246: one convex_step of the loop, its bookkeeping, and the
\* IndexError of algorithm_history[-1] on an empty filtered history
ConvexStep ==
  /\ pc = "ConvexStep"
  /\ \E r \in MwPGP_algorithm(m_proxy, m) :
       /\ solve_args' = Append(solve_args, [m_proxy |-> m_proxy, m0 |-> m])
       /\ m_history' = Append(m_history, r.m)
       /\ m' = r.m
       /\ IF NonZero(r.algorithm_history) = <<>>
          THEN /\ outcome' = "IndexError"
               /\ raised_at' = "algorithm_history"
               /\ pc' = "Idle"
               /\ errors' = errors
          ELSE /\ errors' = Append(errors,
                     NonZero(r.algorithm_history)[Len(NonZero(r.algorithm_history))])
               /\ pc' = "ProxStep"
               /\ UNCHANGED <<outcome, raised_at>>
  /\ UNCHANGED <<pm_vars, kwargs, m0_arg, reg_rs, prox, nu, m_proxy, i,
                 m_proxy_history, n_prox, stop, proj_vars, px_vars, gp_vars>>

\* faulty variant: the prox of the iteration that ends the loop early is
\* not appended to m_proxy_history
ProxStep_break_first ==
  LET p == Prox(prox, m, pm_grid.m_maxima, reg_rs, nu) IN
  /\ pc = "ProxStep"
  /\ m_proxy' = p
  /\ m_proxy_history' =
       IF Given(kwargs.epsilon_RS) /\ NormBelow(m, p, kwargs.epsilon_RS[1])
       THEN m_proxy_history ELSE Append(m_proxy_history, p)
  /\ n_prox' = n_prox + 1
  /\ IF ~Given(kwargs.epsilon_RS)
     THEN /\ outcome' = "KeyError"
          /\ raised_at' = "epsilon_RS"
          /\ pc' = "Idle"
          /\ i' = i
     ELSE IF NormBelow(m, p, kwargs.epsilon_RS[1])
     THEN /\ pc' = "Converged"
          /\ i' = i
          /\ UNCHANGED <<outcome, raised_at>>
     ELSE IF i + 1 < kwargs.max_iter_RS[1]
     THEN /\ i' = i + 1
          /\ pc' = "ConvexStep"
          /\ UNCHANGED <<outcome, raised_at>>
     ELSE /\ i' = i
          /\ pc' = "MaxIterReached"
          /\ UNCHANGED <<outcome, raised_at>>
  /\ UNCHANGED <<pm_vars, kwargs, m0_arg, reg_rs, prox, nu, m, errors,
                 m_history, solve_args, stop, proj_vars, px_vars, gp_vars>>

\* lines 249-253: the prox of the iteration and the early-termination
\* test, and the for statement of line 232 taking the next value of
\* range(max_iter_RS): i moves on only when there is a next iteration, so
\* a loop that runs to the end leaves i = max_iter_RS - 1
ProxStep ==
  LET p == Prox(prox, m, pm_grid.m_maxima, reg_rs, nu) IN
  /\ pc = "ProxStep"
  /\ m_proxy' = p
  /\ m_proxy_history' = Append(m_proxy_history, p)
  /\ n_prox' = n_prox + 1
  /\ IF ~Given(kwargs.epsilon_RS)
     THEN /\ outcome' = "KeyError"
          /\ raised_at' = "epsilon_RS"
          /\ pc' = "Idle"
          /\ i' = i
     ELSE IF NormBelow(m, p, kwargs.epsilon_RS[1])
     THEN /\ pc' = "Converged"
          /\ i' = i
          /\ UNCHANGED <<outcome, raised_at>>
     ELSE IF i + 1 < kwargs.max_iter_RS[1]
     THEN /\ i' = i + 1
          /\ pc' = "ConvexStep"
          /\ UNCHANGED <<outcome, raised_at>>
     ELSE /\ i' = i
          /\ pc' = "MaxIterReached"
          /\ UNCHANGED <<outcome, raised_at>>
  /\ UNCHANGED <<pm_vars, kwargs, m0_arg, reg_rs, prox, nu, m, errors,
                 m_history, solve_args, stop, proj_vars, px_vars, gp_vars>>

\* lines 255-268: the single convex solve of the unregularized branch
SingleConvex ==
  /\ pc = "SingleConvex"
  /\ \E r \in MwPGP_algorithm(pm_m0, pm_m0) :
       /\ solve_args' = Append(solve_args, [m_proxy |-> pm_m0, m0 |-> pm_m0])
       /\ m_history' = r.m_history
       /\ m' = r.m
       /\ m_proxy' = r.m
  /\ pc' = "Solved"
  /\ UNCHANGED <<pm_vars, kwargs, m0_arg, reg_rs, prox, nu, i, errors,
                 m_proxy_history, n_prox, outcome, raised_at, stop,
                 proj_vars, px_vars, gp_vars>>

\* faulty variant: a return that stores m but not m_proxy
Return_no_proxy ==
  /\ pc \in {"Converged", "MaxIterReached", "Solved"}
  /\ pm_m' = m
  /\ outcome' = "returned"
  /\ stop' = pc
  /\ pc' = "Idle"
  /\ UNCHANGED <<pm_m0, pm_m_proxy, kwargs, m0_arg, local_vars, raised_at,
                 proj_vars, px_vars, gp_vars>>

\* lines 271-273: store the result on pm_opt and return the histories
Return ==
  /\ pc \in {"Converged", "MaxIterReached", "Solved"}
  /\ pm_m' = m
  /\ pm_m_proxy' = m_proxy
  /\ outcome' = "returned"
  /\ stop' = pc
  /\ pc' = "Idle"
  /\ UNCHANGED <<pm_m0, kwargs, m0_arg, local_vars, raised_at, proj_vars, px_vars, gp_vars>>

\* what the call returned: (errors, m_history, m_proxy_history)
Returned == <<errors, m_history, m_proxy_history>>

\* no GPMO call made
NoGPMOCall ==
  /\ algorithm = ""
  /\ algorithm_kwargs = <<>>
  /\ gp_call = <<>>
  /\ gp_outcome = "none"
  /\ gp_raised_at = ""
  /\ gp_warned = FALSE
  /\ gp_kernel = <<>>
  /\ k_x = <<>>
  /\ k_resid = <<>>
  /\ k_step = 0
  /\ k_hist = <<>>
  /\ k_trace = <<>>
  /\ gp_ret = <<>>
  /\ gp_prev = <<>>

\* no GPMO call made, no objective model set up for one
GPMOIdle ==
  /\ pm_grid = <<>>
  /\ NoGPMOCall

\* the grid object as geo_setup on RSModel leaves it: all moments zero
Init ==
  /\ pm_m0 = Zeros(Dim * ndipoles)
  /\ pm_m = Zeros(Dim * ndipoles)
  /\ pm_m_proxy = Zeros(Dim * ndipoles)
  /\ pc = "Idle"
  /\ kwargs = NoKwargs
  /\ m0_arg = <<>>
  /\ reg_rs = 0
  /\ prox = "unbound"
  /\ nu = NuDefault
  /\ m = <<>>
  /\ m_proxy = <<>>
  /\ i = 0
  /\ errors = <<>>
  /\ m_history = <<>>
  /\ m_proxy_history = <<>>
  /\ solve_args = <<>>
  /\ n_prox = 0
  /\ outcome = "none"
  /\ raised_at = ""
  /\ stop = ""
  /\ proj_x = <<>>
  /\ proj_mmax = <<>>
  /\ proj_y = <<>>
  /\ px_m = <<>>
  /\ px_reg = 0
  /\ px_nu = 0
  /\ px_l0 = <<>>
  /\ px_l1 = <<>>
  /\ pm_grid = RSGrid
  /\ NoGPMOCall

Next ==
  \/ \E c \in Calls : CallRejected(c[1], c[2])
  \/ \E c \in Calls : CallAccepted(c[1], c[2])
  \/ \E g \in M0Args : SetupInitialCondition(g)
  \/ ConvexStep
  \/ ProxStep
  \/ SingleConvex
  \/ Return

Spec == Init /\ [][Next]_vars

\* ------------------------------------- projection_L2_balls on its own
\* the site vectors and bounds the projection is applied to
ProjMaxBound == 4
ProjSites ==
  {<<0, 0, 0>>, <<1, 0, 0>>, <<1, -2, 2>>, <<0, 3, -4>>, <<-2, 0, 0>>,
   <<2, 2, 1>>}
ProjInputs == {a \o b : a \in ProjSites, b \in ProjSites}
ProjBounds == {<<a, b>> : a \in 1..ProjMaxBound, b \in 1..ProjMaxBound}

\* y = projection_L2_balls(x, mmax), then y = projection_L2_balls(y, mmax)
ApplyProjection ==
  /\ Len(proj_x) > 0
  /\ Len(proj_y) < 2
  /\ proj_y' = Append(proj_y,
        projection_L2_balls(IF proj_y = <<>> THEN Exact(proj_x)
                            ELSE proj_y[Len(proj_y)], proj_mmax))
  /\ UNCHANGED <<proj_x, proj_mmax, pm_vars, pc, kwargs, m0_arg, local_vars,
                 outcome, raised_at, stop, px_vars, gp_vars>>

InitProj ==
  /\ pm_m0 = Zeros(Dim * ndipoles)
  /\ pm_m = Zeros(Dim * ndipoles)
  /\ pm_m_proxy = Zeros(Dim * ndipoles)
  /\ pc = "Idle"
  /\ kwargs = NoKwargs
  /\ m0_arg = <<>>
  /\ reg_rs = 0
  /\ prox = "unbound"
  /\ nu = NuDefault
  /\ m = <<>>
  /\ m_proxy = <<>>
  /\ i = 0
  /\ errors = <<>>
  /\ m_history = <<>>
  /\ m_proxy_history = <<>>
  /\ solve_args = <<>>
  /\ n_prox = 0
  /\ outcome = "none"
  /\ raised_at = ""
  /\ stop = ""
  /\ proj_x \in ProjInputs
  /\ proj_mmax \in ProjBounds
  /\ proj_y = <<>>
  /\ px_m = <<>>
  /\ px_reg = 0
  /\ px_nu = 0
  /\ px_l0 = <<>>
  /\ px_l1 = <<>>
  /\ GPMOIdle

NextProj == ApplyProjection

SpecProj == InitProj /\ [][NextProj]_vars

\* ------------------------------------------- the proximal operators
\* prox_l0 and prox_l1 applied to arrays that need not be feasible, for
\* the bounds M_Maxima and every reg, nu >= 0 below.
MaxProxReg == 2
ProxSites ==
  {<<0, 0, 0>>,
   <<M_Maxima[1], 0, 0>>,
   <<(3 * M_Maxima[1]) \div 4, -(M_Maxima[1] \div 2), 0>>,
   <<-(M_Maxima[1] \div 4), M_Maxima[1] \div 2, -M_Maxima[1]>>}
ProxMoments == {a \o b : a \in ProxSites, b \in ProxSites}
ProxRegs == 0..MaxProxReg
ProxNus == {0, 1, 2, NuDefault}

\* m_proxy = prox_l0(m, mmax, reg_l0, nu)
ApplyProxL0 ==
  /\ Len(px_m) > 0
  /\ px_l0 = <<>>
  /\ px_l0' = <<prox_l0(px_m, M_Maxima, px_reg, px_nu)>>
  /\ UNCHANGED <<px_m, px_reg, px_nu, px_l1, proj_vars, pm_vars, pc, kwargs,
                 m0_arg, local_vars, outcome, raised_at, stop, gp_vars>>

\* m_proxy = prox_l1(m, mmax, reg_l1, nu)
ApplyProxL1 ==
  /\ Len(px_m) > 0
  /\ px_l1 = <<>>
  /\ px_l1' = <<prox_l1(px_m, M_Maxima, px_reg, px_nu)>>
  /\ UNCHANGED <<px_m, px_reg, px_nu, px_l0, proj_vars, pm_vars, pc, kwargs,
                 m0_arg, local_vars, outcome, raised_at, stop, gp_vars>>

InitProx ==
  /\ pm_m0 = Zeros(Dim * ndipoles)
  /\ pm_m = Zeros(Dim * ndipoles)
  /\ pm_m_proxy = Zeros(Dim * ndipoles)
  /\ pc = "Idle"
  /\ kwargs = NoKwargs
  /\ m0_arg = <<>>
  /\ reg_rs = 0
  /\ prox = "unbound"
  /\ nu = NuDefault
  /\ m = <<>>
  /\ m_proxy = <<>>
  /\ i = 0
  /\ errors = <<>>
  /\ m_history = <<>>
  /\ m_proxy_history = <<>>
  /\ solve_args = <<>>
  /\ n_prox = 0
  /\ outcome = "none"
  /\ raised_at = ""
  /\ stop = ""
  /\ proj_x = <<>>
  /\ proj_mmax = <<>>
  /\ proj_y = <<>>
  /\ px_m \in ProxMoments
  /\ px_reg \in ProxRegs
  /\ px_nu \in ProxNus
  /\ px_l0 = <<>>
  /\ px_l1 = <<>>
  /\ GPMOIdle

NextProx ==
  \/ ApplyProxL0
  \/ ApplyProxL1

SpecProx == InitProx /\ [][NextProx]_vars

\* ---------------------------------------------------------- GPMO
\* Largest K and largest nhistory passed to GPMO.
MaxK == 5
MaxNHistory == 3

\* algorithm_kwargs with the given entries
GKw(K, nhistory, xyz) == [K |-> K, nhistory |-> nhistory, dipole_grid_xyz |-> xyz]
Algorithms ==
  {"baseline", "multi", "backtracking", "ArbVec", "ArbVec_backtracking",
   "mutual_coherence", "unknown"}
\* the algorithms GPMO has a kernel for
KernelAlgorithms ==
  {"baseline", "multi", "backtracking", "ArbVec", "ArbVec_backtracking"}
\* The calls made on pm_opt, (algorithm, algorithm_kwargs):
\*   baseline with every K and nhistory, and with neither;
BaselineCalls ==
  {<<"baseline", GKw(<<k>>, nh, <<>>)>> :
     k \in 1..MaxK, nh \in Opt(1..MaxNHistory)}
  \cup {<<"baseline", GKw(<<>>, <<>>, <<>>)>>}
\*   every other algorithm with and without dipole_grid_xyz, and with an
\*   nhistory above K.
VariantCalls ==
  {<<a, GKw(k, <<>>, xyz)>> :
     a \in Algorithms \ {"baseline"}, k \in {<<>>, <<1>>, <<MaxK>>},
     xyz \in Opt({"grid"})}
  \cup {<<a, GKw(<<1>>, <<2>>, <<"grid">>)>> : a \in Algorithms}
GPMOCalls == BaselineCalls \cup VariantCalls

\* faulty variant: the kernel handed pm_opt.A_obj without the factor mmax_vec
ScaledA_unscaled(g) == g.A_obj

\* line 318: A_obj = pm_opt.A_obj * mmax_vec
ScaledA(g) ==
  [f \in 1..Len(g.A_obj) |->
     [k \in 1..(Dim * Len(g.m_maxima)) |->
        g.A_obj[f][k] * mmax_vec(g.m_maxima)[k]]]

\* faulty variant: K left as the caller gave it
ClampK_unclamped(kw) == kw

\* lines 330-338: K clamped to the number of dipole sites
ClampK(kw) ==
  IF Given(kw.K) /\ kw.K[1] > GridN THEN [kw EXCEPT !.K = <<GridN>>] ELSE kw

\* faulty variant: ArbVec left out of the algorithms that run without
\* dipole_grid_xyz
GPMOError_ArbVec_needs_xyz(alg, kw) ==
  IF ~pm_grid.has_A_obj THEN "A_obj"
  ELSE IF alg \notin {"baseline", "mutual_coherence"}
          /\ ~Given(kw.dipole_grid_xyz)
       THEN "dipole_grid_xyz"
  ELSE IF Given(kw.nhistory) /\ Given(kw.K)
          /\ kw.nhistory[1] > ClampK(kw).K[1]
       THEN "nhistory"
  ELSE IF alg = "ArbVec_backtracking" /\ pm_grid.coordinate_flag # "cartesian"
       THEN "cartesian"
  ELSE IF alg \notin KernelAlgorithms THEN "algorithm"
  ELSE ""

\* faulty variant: mutual_coherence left out of the algorithms that pass
\* the check of dipole_grid_xyz
GPMOError_mutual_needs_xyz(alg, kw) ==
  IF ~pm_grid.has_A_obj THEN "A_obj"
  ELSE IF alg \notin {"baseline", "ArbVec"}
          /\ ~Given(kw.dipole_grid_xyz)
       THEN "dipole_grid_xyz"
  ELSE IF Given(kw.nhistory) /\ Given(kw.K)
          /\ kw.nhistory[1] > ClampK(kw).K[1]
       THEN "nhistory"
  ELSE IF alg = "ArbVec_backtracking" /\ pm_grid.coordinate_flag # "cartesian"
       THEN "cartesian"
  ELSE IF alg \notin KernelAlgorithms THEN "algorithm"
  ELSE ""

\* the exception a GPMO call raises, in the order of lines 303-396; ""
\* when it reaches a kernel
GPMOError(alg, kw) ==
  IF ~pm_grid.has_A_obj THEN "A_obj"
  ELSE IF alg \notin {"baseline", "mutual_coherence", "ArbVec"}
          /\ ~Given(kw.dipole_grid_xyz)
       THEN "dipole_grid_xyz"
  ELSE IF Given(kw.nhistory) /\ Given(kw.K)
          /\ kw.nhistory[1] > ClampK(kw).K[1]
       THEN "nhistory"
  ELSE IF alg = "ArbVec_backtracking" /\ pm_grid.coordinate_flag # "cartesian"
       THEN "cartesian"
  ELSE IF alg \notin KernelAlgorithms THEN "algorithm"
  ELSE ""

\* faulty variant: the warning given for K >= ndipoles
WarnsK_at_limit(alg, kw) ==
  /\ GPMOError(alg, kw) \notin {"A_obj", "dipole_grid_xyz"}
  /\ Given(kw.K)
  /\ kw.K[1] >= GridN

\* lines 331-337: the call reached the check of K and found K > ndipoles
WarnsK(alg, kw) ==
  /\ GPMOError(alg, kw) \notin {"A_obj", "dipole_grid_xyz"}
  /\ Given(kw.K)
  /\ kw.K[1] > GridN

(***************************************************************************)
(* The sopp.GPMO_* kernels are compiled code outside these sources.  From  *)
(* the specification (section 4.4): starting from no committed site, each  *)
(* step evaluates every unassigned site with every admissible polarization *)
(* (here + and - each coordinate axis), commits the pair that leaves the   *)
(* least squared residual (ties: lowest component index first, + before -),*)
(* updates the residual by the committed column, and stops after exactly K *)
(* commits; error, Bn and m are recorded at nhistory checkpoints across    *)
(* the K steps, in arrays of nhistory + 1 slots that are zero where        *)
(* nothing was recorded.  The kernel works in moments normalized by mmax.  *)
(* The variants differ in selection and bookkeeping only; their commit     *)
(* mechanics are the baseline's.  The backtracking variants may, between   *)
(* placements, reverse a committed site whose removal does not increase    *)
(* the squared residual, taking its column out of the residual again.      *)
(***************************************************************************)
SqNorm(r) == SumTo([f \in 1..Len(r) |-> r[f] * r[f]], Len(r))
AbsSum(r) == SumTo([f \in 1..Len(r) |-> Abs(r[f])], Len(r))
\* A x - b
Residual(A, b, x) ==
  [f \in 1..Len(A) |->
     SumTo([k \in 1..Len(x) |-> A[f][k] * x[k]], Len(x)) - b[f]]
\* the sites with no committed moment
Unassigned(x) ==
  {j \in 1..(Len(x) \div Dim) : \A k \in SiteIdx(j) : x[k] = 0}
\* (component, sign) of every unassigned site
Candidates(x) ==
  {<<k, sg>> : k \in {kk \in 1..Len(x) : SiteOf(kk) \in Unassigned(x)},
               sg \in {1, -1}}
\* r <- r + A_i m_i
AfterCommit(r, A, c) == [f \in 1..Len(r) |-> r[f] + c[2] * A[f][c[1]]]
CandRank(c) == 2 * c[1] + (IF c[2] = 1 THEN 0 ELSE 1)
BestCandidate(A, r, x) ==
  CHOOSE c \in Candidates(x) :
    \A d \in Candidates(x) :
      \/ SqNorm(AfterCommit(r, A, c)) < SqNorm(AfterCommit(r, A, d))
      \/ /\ SqNorm(AfterCommit(r, A, c)) = SqNorm(AfterCommit(r, A, d))
         /\ CandRank(c) <= CandRank(d)
\* step k (from 0) of K is a checkpoint
Checkpoint(k, K, nhistory) == k % (K \div nhistory) = 0 \/ k = K - 1
\* the budget and the checkpoints a kernel runs with when the caller gives
\* none
KernelK(kw) == KwGet(kw, "K", GridN)
KernelNHistory(kw) == KwGet(kw, "nhistory", 1)
\* the name of the kernel called for an algorithm
KernelOf(alg) ==
  CASE alg = "baseline" -> "GPMO_baseline"
    [] alg = "ArbVec" -> "GPMO_ArbVec"
    [] alg = "backtracking" -> "GPMO_backtracking"
    [] alg = "ArbVec_backtracking" -> "GPMO_ArbVec_backtracking"
    [] alg = "multi" -> "GPMO_multi"

\* the residual of the empty assignment a kernel starts from
InitialResidual ==
  Residual(ScaledA(pm_grid), pm_grid.b_obj, Zeros(Dim * GridN))

\* a sequence h padded with z to n entries
PadTo(h, n, z) == [j \in 1..Max(n, Len(h)) |-> IF j <= Len(h) THEN h[j] ELSE z]

\* faulty variant: the bound applied twice
Rescale_twice(x, mmax) ==
  [k \in 1..Len(x) |-> x[k] * mmax_vec(mmax)[k] * mmax_vec(mmax)[k]]

\* lines 400 and 407-408: m * mmax_vec
Rescale(x, mmax) == [k \in 1..Len(x) |-> x[k] * mmax_vec(mmax)[k]]

\* what the run before this call returned and stored, when it was a
\* baseline run with the arguments of this call: its return value and the
\* rescaled kernel moments that lines 413-414 put in pm_opt.m and
\* pm_opt.m_proxy (which a relax_and_split call may since have replaced)
PrevRun(alg, kw) ==
  IF gp_outcome = "returned" /\ algorithm = "baseline" /\ gp_call = <<alg, kw>>
  THEN <<[ret |-> gp_ret[1],
          m |-> Rescale(k_x, pm_grid.m_maxima),
          m_proxy |-> Rescale(k_x, pm_grid.m_maxima)]>>
  ELSE <<>>

\* faulty variant: a raising call resets pm_opt.m and pm_opt.m_proxy
GPMORaise_clears_solution(alg, kw) ==
  /\ pc = "Idle"
  /\ GPMOError(alg, kw) # ""
  /\ gp_prev' = PrevRun(alg, kw)
  /\ gp_call' = <<alg, kw>>
  /\ algorithm' = alg
  /\ algorithm_kwargs' =
       IF GPMOError(alg, kw) \in {"A_obj", "dipole_grid_xyz"} THEN kw
       ELSE ClampK(kw)
  /\ gp_warned' = WarnsK(alg, kw)
  /\ gp_outcome' = IF GPMOError(alg, kw) = "algorithm"
                   THEN "NotImplementedError" ELSE "ValueError"
  /\ gp_raised_at' = GPMOError(alg, kw)
  /\ gp_kernel' = <<>>
  /\ k_x' = <<>>
  /\ k_resid' = <<>>
  /\ k_step' = 0
  /\ k_hist' = <<>>
  /\ k_trace' = <<>>
  /\ gp_ret' = <<>>
  /\ pm_m' = Zeros(Dim * GridN)
  /\ pm_m_proxy' = Zeros(Dim * GridN)
  /\ UNCHANGED <<pm_grid, pm_m0, pc, kwargs, m0_arg, local_vars, outcome,
                 raised_at, stop, proj_vars, px_vars>>

\* GPMO(pm_opt, alg, **kw) raising at lines 304, 321, 342, 375 or 394
GPMORaise(alg, kw) ==
  /\ pc = "Idle"
  /\ GPMOError(alg, kw) # ""
  /\ gp_prev' = PrevRun(alg, kw)
  /\ gp_call' = <<alg, kw>>
  /\ algorithm' = alg
  /\ algorithm_kwargs' =
       IF GPMOError(alg, kw) \in {"A_obj", "dipole_grid_xyz"} THEN kw
       ELSE ClampK(kw)
  /\ gp_warned' = WarnsK(alg, kw)
  /\ gp_outcome' = IF GPMOError(alg, kw) = "algorithm"
                   THEN "NotImplementedError" ELSE "ValueError"
  /\ gp_raised_at' = GPMOError(alg, kw)
  /\ gp_kernel' = <<>>
  /\ k_x' = <<>>
  /\ k_resid' = <<>>
  /\ k_step' = 0
  /\ k_hist' = <<>>
  /\ k_trace' = <<>>
  /\ gp_ret' = <<>>
  /\ UNCHANGED <<pm_grid, pm_vars, pc, kwargs, m0_arg, local_vars, outcome,
                 raised_at, stop, proj_vars, px_vars>>

\* faulty variant: pm_opt.A_obj scaled by mmax_vec in place
GPMOEnter_in_place(alg, kw) ==
  /\ pc = "Idle"
  /\ GPMOError(alg, kw) = ""
  /\ gp_prev' = PrevRun(alg, kw)
  /\ gp_call' = <<alg, kw>>
  /\ algorithm' = alg
  /\ algorithm_kwargs' = ClampK(kw)
  /\ gp_warned' = WarnsK(alg, kw)
  /\ gp_outcome' = "running"
  /\ gp_raised_at' = ""
  /\ gp_kernel' = <<[name |-> KernelOf(alg), K |-> KernelK(ClampK(kw)),
                     nhistory |-> KernelNHistory(ClampK(kw)),
                     A_obj |-> ScaledA(pm_grid), b_obj |-> pm_grid.b_obj]>>
  /\ k_x' = Zeros(Dim * GridN)
  /\ k_resid' = InitialResidual
  /\ k_step' = 0
  /\ k_hist' = [algorithm_history |-> <<>>, Bn_history |-> <<>>,
                m_history |-> <<>>]
  /\ k_trace' = <<SqNorm(InitialResidual)>>
  /\ gp_ret' = <<>>
  /\ pc' = "Kernel"
  /\ pm_grid' = [pm_grid EXCEPT !.A_obj = ScaledA(pm_grid)]
  /\ UNCHANGED <<pm_vars, kwargs, m0_arg, local_vars, outcome,
                 raised_at, stop, proj_vars, px_vars>>

\* GPMO(pm_opt, alg, **kw) up to its call of the kernel: lines 303-346 and
\* the branch of lines 349-391
GPMOEnter(alg, kw) ==
  /\ pc = "Idle"
  /\ GPMOError(alg, kw) = ""
  /\ gp_prev' = PrevRun(alg, kw)
  /\ gp_call' = <<alg, kw>>
  /\ algorithm' = alg
  /\ algorithm_kwargs' = ClampK(kw)
  /\ gp_warned' = WarnsK(alg, kw)
  /\ gp_outcome' = "running"
  /\ gp_raised_at' = ""
  /\ gp_kernel' = <<[name |-> KernelOf(alg), K |-> KernelK(ClampK(kw)),
                     nhistory |-> KernelNHistory(ClampK(kw)),
                     A_obj |-> ScaledA(pm_grid), b_obj |-> pm_grid.b_obj]>>
  /\ k_x' = Zeros(Dim * GridN)
  /\ k_resid' = InitialResidual
  /\ k_step' = 0
  /\ k_hist' = [algorithm_history |-> <<>>, Bn_history |-> <<>>,
                m_history |-> <<>>]
  /\ k_trace' = <<SqNorm(InitialResidual)>>
  /\ gp_ret' = <<>>
  /\ pc' = "Kernel"
  /\ UNCHANGED <<pm_grid, pm_vars, kwargs, m0_arg, local_vars, outcome,
                 raised_at, stop, proj_vars, px_vars>>

\* one step of the kernel: commit the best (site, polarization) pair
KernelPlace ==
  /\ pc = "Kernel"
  /\ k_step < gp_kernel[1].K
  /\ \E c \in {BestCandidate(gp_kernel[1].A_obj, k_resid, k_x)} :
     \E r \in {AfterCommit(k_resid, gp_kernel[1].A_obj, c)} :
     \E x \in {[k_x EXCEPT ![c[1]] = c[2]]} :
        /\ k_x' = x
        /\ k_resid' = r
        /\ k_trace' = Append(k_trace, SqNorm(r))
        /\ k_hist' =
             IF Checkpoint(k_step, gp_kernel[1].K, gp_kernel[1].nhistory)
             THEN [algorithm_history |-> Append(k_hist.algorithm_history, SqNorm(r)),
                   Bn_history |-> Append(k_hist.Bn_history, AbsSum(r)),
                   m_history |-> Append(k_hist.m_history, x)]
             ELSE k_hist
  /\ k_step' = k_step + 1
  /\ UNCHANGED <<pm_grid, algorithm, algorithm_kwargs, gp_call, gp_outcome,
                 gp_raised_at, gp_warned, gp_kernel, gp_ret, gp_prev, pm_vars,
                 pc, kwargs, m0_arg, local_vars, outcome, raised_at, stop,
                 proj_vars, px_vars>>

\* the kernels that reverse commitments
BacktrackingKernels == {"GPMO_backtracking", "GPMO_ArbVec_backtracking"}
\* r <- r - A_i m_i for the committed component k of x
AfterUncommit(r, A, x, k) == [f \in 1..Len(r) |-> r[f] - x[k] * A[f][k]]

\* a backtracking kernel reverses one commitment whose removal does not
\* increase the squared residual
KernelUncommit ==
  /\ pc = "Kernel"
  /\ gp_kernel[1].name \in BacktrackingKernels
  /\ k_step > 0
  /\ \E k \in {kk \in 1..Len(k_x) : k_x[kk] # 0} :
     \E r \in {AfterUncommit(k_resid, gp_kernel[1].A_obj, k_x, k)} :
        /\ SqNorm(r) <= SqNorm(k_resid)
        /\ k_x' = [k_x EXCEPT ![k] = 0]
        /\ k_resid' = r
        /\ k_trace' = Append(k_trace, SqNorm(r))
  /\ UNCHANGED <<pm_grid, algorithm, algorithm_kwargs, gp_call, gp_outcome,
                 gp_raised_at, gp_warned, gp_kernel, k_step, k_hist, gp_ret,
                 gp_prev, pm_vars, pc, kwargs, m0_arg, local_vars, outcome,
                 raised_at, stop, proj_vars, px_vars>>

\* lines 399-415: the kernel has returned; rescale m and m_history, drop
\* the zero entries of the histories, store m and return
GPMOReturn ==
  /\ pc = "Kernel"
  /\ k_step = gp_kernel[1].K
  /\ pm_m' = Rescale(k_x, pm_grid.m_maxima)
  /\ pm_m_proxy' = Rescale(k_x, pm_grid.m_maxima)
  /\ gp_ret' =
       <<[errors |-> NonZero(k_hist.algorithm_history),
          Bn_errors |-> NonZero(k_hist.Bn_history),
          m_history |->
            [j \in 1..Max(gp_kernel[1].nhistory + 1, Len(k_hist.m_history)) |->
               Rescale(PadTo(k_hist.m_history, gp_kernel[1].nhistory + 1,
                             Zeros(Dim * GridN))[j],
                       pm_grid.m_maxima)]]>>
  /\ gp_outcome' = "returned"
  /\ pc' = "Idle"
  /\ UNCHANGED <<pm_grid, algorithm, algorithm_kwargs, gp_call, gp_raised_at,
                 gp_warned, gp_kernel, kernel_vars, gp_prev, pm_m0, kwargs,
                 m0_arg, local_vars, outcome, raised_at, stop, proj_vars,
                 px_vars>>

\* pm_opt after geo_setup on one of the objective models
InitGPMO ==
  /\ pm_grid \in Grids
  /\ pm_m0 = Zeros(Dim * GridN)
  /\ pm_m = Zeros(Dim * GridN)
  /\ pm_m_proxy = Zeros(Dim * GridN)
  /\ pc = "Idle"
  /\ kwargs = NoKwargs
  /\ m0_arg = <<>>
  /\ reg_rs = 0
  /\ prox = "unbound"
  /\ nu = NuDefault
  /\ m = <<>>
  /\ m_proxy = <<>>
  /\ i = 0
  /\ errors = <<>>
  /\ m_history = <<>>
  /\ m_proxy_history = <<>>
  /\ solve_args = <<>>
  /\ n_prox = 0
  /\ outcome = "none"
  /\ raised_at = ""
  /\ stop = ""
  /\ proj_x = <<>>
  /\ proj_mmax = <<>>
  /\ proj_y = <<>>
  /\ px_m = <<>>
  /\ px_reg = 0
  /\ px_nu = 0
  /\ px_l0 = <<>>
  /\ px_l1 = <<>>
  /\ NoGPMOCall

NextGPMO ==
  \/ \E c \in GPMOCalls : GPMORaise(c[1], c[2])
  \/ \E c \in GPMOCalls : GPMOEnter(c[1], c[2])
  \/ KernelPlace
  \/ KernelUncommit
  \/ GPMOReturn

SpecGPMO == InitGPMO /\ [][NextGPMO]_vars

\* ------------------------------- both entry points on one pm_opt
\* relax_and_split and GPMO called in any order on the same grid object:
\* RSModel set up in either coordinate system, the model with a zero
\* bound, and a grid object on which geo_setup has not run.
SessionGrids ==
  {RSGrid,
   Grid(RSModel, "cylindrical", TRUE),
   Grid(ZeroBoundModel, "cartesian", TRUE),
   Grid(RSModel, "cartesian", FALSE)}
\* relax_and_split calls: no regularization with no m0, a feasible m0, an
\* infeasible m0 and an m0 of the wrong length; both regularizations; an
\* L0-regularized and an L1-regularized loop of one iteration.
SessionCalls ==
  {<<Kw(<<>>, <<>>, <<>>, <<>>, <<>>), g>> :
     g \in {<<>>, <<Array1(InteriorMoment)>>, <<Array1(CornerMoment)>>,
            <<Array1(Zeros((Dim * ndipoles) \div 2))>>}}
  \cup {<<Kw(<<2>>, <<2>>, <<>>, <<>>, <<>>), <<>>>>,
        <<Kw(<<2>>, <<>>, <<1>>, <<1>>, <<1>>), <<>>>>,
        <<Kw(<<>>, <<2>>, <<1>>, <<1>>, <<1>>), <<>>>>}
\* GPMO calls: a baseline run, an nhistory above K, a variant without
\* dipole_grid_xyz, ArbVec_backtracking with it, and an unknown algorithm.
SessionGPMOCalls ==
  {<<"baseline", GKw(<<1>>, <<>>, <<>>)>>,
   <<"baseline", GKw(<<1>>, <<2>>, <<>>)>>,
   <<"backtracking", GKw(<<1>>, <<>>, <<>>)>>,
   <<"ArbVec_backtracking", GKw(<<1>>, <<>>, <<"grid">>)>>,
   <<"unknown", GKw(<<1>>, <<>>, <<"grid">>)>>}

InitSession ==
  /\ pm_grid \in SessionGrids
  /\ pm_m0 = Zeros(Dim * GridN)
  /\ pm_m = Zeros(Dim * GridN)
  /\ pm_m_proxy = Zeros(Dim * GridN)
  /\ pc = "Idle"
  /\ kwargs = NoKwargs
  /\ m0_arg = <<>>
  /\ reg_rs = 0
  /\ prox = "unbound"
  /\ nu = NuDefault
  /\ m = <<>>
  /\ m_proxy = <<>>
  /\ i = 0
  /\ errors = <<>>
  /\ m_history = <<>>
  /\ m_proxy_history = <<>>
  /\ solve_args = <<>>
  /\ n_prox = 0
  /\ outcome = "none"
  /\ raised_at = ""
  /\ stop = ""
  /\ proj_x = <<>>
  /\ proj_mmax = <<>>
  /\ proj_y = <<>>
  /\ px_m = <<>>
  /\ px_reg = 0
  /\ px_nu = 0
  /\ px_l0 = <<>>
  /\ px_l1 = <<>>
  /\ NoGPMOCall

NextSession ==
  \/ \E c \in SessionCalls : CallRejected(c[1], c[2])
  \/ \E c \in SessionCalls : CallAccepted(c[1], c[2])
  \/ \E c \in SessionCalls : SetupInitialCondition(c[2])
  \/ ConvexStep
  \/ ProxStep
  \/ SingleConvex
  \/ Return
  \/ \E c \in SessionGPMOCalls : GPMORaise(c[1], c[2])
  \/ \E c \in SessionGPMOCalls : GPMOEnter(c[1], c[2])
  \/ KernelPlace
  \/ KernelUncommit
  \/ GPMOReturn

SpecSession == InitSession /\ [][NextSession]_vars

\* a started call runs on: the interpreter executes relax_and_split to its
\* return or to the exception it raises
Fairness ==
  /\ WF_vars(ConvexStep)
  /\ WF_vars(ProxStep)
  /\ WF_vars(SingleConvex)
  /\ WF_vars(Return)

SpecFair == Spec /\ Fairness

\* a started GPMO call runs on: the kernel places until its budget is
\* spent and GPMO returns
FairnessGPMO ==
  /\ WF_vars(KernelPlace)
  /\ WF_vars(GPMOReturn)

SpecGPMOFair == SpecGPMO /\ FairnessGPMO

\* ====================================================== the claims
\* reg_l0 / reg_l1 of the running (or last) call
RegL0 == KwGet(kwargs, "reg_l0", 0)
RegL1 == KwGet(kwargs, "reg_l1", 0)
\* a call has been made
Called == outcome # "none"
\* the call is over
Ended == Called /\ pc = "Idle"
ZeroMoment == Zeros(Dim * ndipoles)
\* a step that enters relax_and_split: out of Idle, it records the call's
\* arguments and outcome, which setup_initial_condition called on its own
\* leaves alone
RSCall ==
  /\ pc = "Idle"
  /\ <<kwargs, m0_arg, outcome, raised_at, pc, stop, local_vars>>'
       # <<kwargs, m0_arg, outcome, raised_at, pc, stop, local_vars>>

\* C1 (as stated): a call with reg_l0 and reg_l1 both non-zero raises the
\* ValueError of line 204.
C1_NonzeroRegsRaise ==
  (Called /\ RegL0 # 0 /\ RegL1 # 0)
    => (outcome = "ValueError" /\ raised_at = "L0L1")

\* C1 (amended): a call whose reg_l0 and reg_l1 both differ from zero by
\* more than 1e-16 raises the ValueError of line 204 before any convex solve
\* or prox, and leaves pm_opt.m, pm_opt.m_proxy and pm_opt.m0 as they were,
\* whatever m0 it was given.
C1_RegsBeyondAtolRaise ==
  /\ [](Called /\ Abs(RegL0) > RegATol /\ Abs(RegL1) > RegATol
          => /\ outcome = "ValueError"
             /\ raised_at = "L0L1"
             /\ solve_args = <<>>
             /\ n_prox = 0)
  /\ [][(RSCall
           /\ Abs(KwGet(kwargs', "reg_l0", 0)) > RegATol
           /\ Abs(KwGet(kwargs', "reg_l1", 0)) > RegATol)
          => (pm_m' = pm_m /\ pm_m_proxy' = pm_m_proxy /\ pm_m0' = pm_m0)]_vars

\* C1 witness: the error raised on a call that also brought a valid,
\* non-zero m0, after an earlier call had stored a non-zero solution.
C1_Witness ==
  /\ outcome = "ValueError"
  /\ raised_at = "L0L1"
  /\ m0_arg = <<Array1(InteriorMoment)>>
  /\ pm_m0 = ZeroMoment
  /\ pm_m # ZeroMoment

\* C2: with reg_l0 and reg_l1 both unset or 0 a call never fails for want
\* of max_iter_RS or epsilon_RS, and when it has returned it has run the
\* convex solver exactly once and no prox, and pm_opt.m = pm_opt.m_proxy.
C2_UnregularizedSingleSolve ==
  (Called /\ RegL0 = 0 /\ RegL1 = 0)
    => /\ outcome \in {"running", "returned", "ValueError"}
       /\ outcome = "ValueError" => raised_at \in {"shape", "bounds"}
       /\ n_prox = 0
       /\ Len(solve_args) <= 1
       /\ outcome = "returned"
            => /\ Len(solve_args) = 1
               /\ stop = "Solved"
               /\ pm_m = m
               /\ pm_m = pm_m_proxy

\* C2 witness: such a call, given neither max_iter_RS nor epsilon_RS, has
\* returned a non-zero solution.
C2_Witness ==
  /\ outcome = "returned"
  /\ RegL0 = 0 /\ RegL1 = 0
  /\ ~Given(kwargs.max_iter_RS) /\ ~Given(kwargs.epsilon_RS)
  /\ Len(solve_args) = 1
  /\ pm_m # ZeroMoment

\* how the call stands, or how it left its loop once it is over
Phase == IF pc = "Idle" THEN stop ELSE pc
\* iteration k of the loop ended with ||m - m_proxy|| < epsilon_RS
GapBelow(k) ==
  /\ kwargs.epsilon_RS[1] > 0
  /\ DistSq(m_history[k], m_proxy_history[k])
       < kwargs.epsilon_RS[1] * kwargs.epsilon_RS[1]

\* C3: a regularized call (reg_rs > 0, max_iter_RS given) never runs more
\* than max_iter_RS iterations; an iteration whose gap is below epsilon_RS
\* is the last one and ends the loop as Converged; the loop ends as
\* MaxIterReached only after exactly max_iter_RS iterations, none of them
\* with a gap below epsilon_RS; and every call that has started ends.
C3_LoopTerminates ==
  /\ [](Called /\ reg_rs > 0 /\ Given(kwargs.max_iter_RS)
          => /\ Len(m_history) <= Max(kwargs.max_iter_RS[1], 0)
             /\ Len(solve_args) = Len(m_history)
             /\ Len(m_proxy_history) <= Len(m_history)
             /\ Phase = "ConvexStep" => Len(m_history) < kwargs.max_iter_RS[1]
             /\ Given(kwargs.epsilon_RS)
                  => \A k \in 1..Len(m_proxy_history) :
                       GapBelow(k) <=> (k = Len(m_proxy_history)
                                          /\ Phase = "Converged")
             /\ Phase = "Converged" => Len(m_proxy_history) >= 1
             /\ Phase = "MaxIterReached"
                  => /\ Len(m_history) = Max(kwargs.max_iter_RS[1], 0)
                     /\ Len(m_proxy_history) = Len(m_history))
  /\ (pc # "Idle") ~> (pc = "Idle")

\* C3 witness: a loop allowed MaxIterRS iterations that converged in its
\* first one, on a non-zero iterate.
C3_Witness ==
  /\ outcome = "returned"
  /\ stop = "Converged"
  /\ kwargs.max_iter_RS = <<MaxIterRS>>
  /\ Len(m_history) = 1
  /\ pm_m # ZeroMoment

\* the array given as m0
Guess == m0_arg[1]

\* C4 (as stated): a call given an m0 whose len() is 3 * ndipoles (and one
\* regularization at most) takes it exactly when every site of m0 is within
\* its bound: then the call stores m0 itself in pm_opt.m0, where it stays
\* while the call runs, and the first convex solve starts from it;
\* otherwise the call raises the ValueError of line 108 before any solve or
\* prox, and pm_opt.m0 keeps its value.
C4_GuessAcceptedIffFeasible ==
  /\ [](Called /\ Given(m0_arg) /\ raised_at # "L0L1"
          /\ Guess.shape[1] = Dim * ndipoles
          => IF Feasible(Guess.data, M_Maxima)
             THEN /\ raised_at \notin {"shape", "bounds"}
                  /\ pc # "Idle" => pm_m0 = Guess.data
                  /\ Len(solve_args) >= 1 => solve_args[1].m0 = Guess.data
             ELSE /\ outcome = "ValueError"
                  /\ raised_at = "bounds"
                  /\ solve_args = <<>>
                  /\ n_prox = 0
                  /\ pm_m0 # Guess.data)
  /\ [][(RSCall /\ Given(m0_arg') /\ raised_at' \notin {"L0L1", "shape", "bounds"})
          => pm_m0' = m0_arg'[1].data]_vars
  /\ [][(RSCall /\ raised_at' = "bounds") => pm_m0' = pm_m0]_vars

\* C5: a call given an m0 whose len() is not 3 * ndipoles (and one
\* regularization at most) raises the ValueError of line 97, not the one of
\* the feasibility check, before any solve or prox, and pm_opt.m0 keeps
\* its value.
C5_WrongLengthRejected ==
  /\ [](Called /\ Given(m0_arg) /\ raised_at # "L0L1"
          /\ Guess.shape[1] # Dim * ndipoles
          => /\ outcome = "ValueError"
             /\ raised_at = "shape"
             /\ solve_args = <<>>
             /\ n_prox = 0)
  /\ [][(RSCall /\ raised_at' = "shape") => pm_m0' = pm_m0]_vars

\* C5 witness: an (ndipoles, 3) array with out-of-bounds entries is refused
\* for its shape while pm_opt.m0 holds an earlier, accepted guess.
C5_Witness ==
  /\ outcome = "ValueError"
  /\ raised_at = "shape"
  /\ Guess.shape = <<ndipoles, Dim>>
  /\ ~Feasible(Guess.data, M_Maxima)
  /\ pm_m0 = InteriorMoment

\* C6 (as stated): a call without m0 starts its first convex solve from the
\* all-zero moment vector.
C6_OmittedGuessStartsAtZero ==
  (Called /\ ~Given(m0_arg) /\ Len(solve_args) >= 1)
    => solve_args[1].m0 = ZeroMoment

\* C7 (as stated): a call that returned after at least one convex solve
\* returns a non-empty error history.
C7_ErrorHistoryNonEmpty ==
  (outcome = "returned" /\ Len(solve_args) >= 1) => Len(errors) >= 1

\* C8 (as stated): no result of the convex solver makes an iteration of
\* the loop raise.
C8_SolverResultNeverRaises == outcome # "IndexError"

\* every site of every array in the sequence h is within its bound
AllFeasible(h) == \A k \in 1..Len(h) : Feasible(h[k], M_Maxima)

\* C9: with the starting guess within bounds, every iterate of a call is
\* within the per-site bounds: each m a convex step returned, each m_proxy
\* a prox produced (the initial prox of m0 too), and pm_opt.m and
\* pm_opt.m_proxy as the call leaves them.
C9_IteratesFeasible ==
  Called
    => /\ Feasible(pm_m0, M_Maxima)
       /\ Feasible(pm_m, M_Maxima)
       /\ Feasible(pm_m_proxy, M_Maxima)
       /\ AllFeasible(m_history)
       /\ AllFeasible(m_proxy_history)
       /\ m # <<>> => Feasible(m, M_Maxima)
       /\ m_proxy # <<>> => Feasible(m_proxy, M_Maxima)

\* C9 witness: an L1-regularized call has returned a non-zero m_proxy that
\* differs from m.
C9_Witness ==
  /\ outcome = "returned"
  /\ prox = "prox_l1"
  /\ reg_rs > 0
  /\ pm_m_proxy # ZeroMoment
  /\ pm_m_proxy # pm_m
  /\ Len(m_proxy_history) = MaxIterRS

\* the squared norm of site s of the real array y is bound * bound
SiteNormIs(y, s, bound) ==
  SiteSumSq(y.v, s) * y.num[s] * y.num[s] = bound * bound * y.den2[s]

\* C10: projection_L2_balls returns a site within its bound unchanged,
\* rescales a site beyond its bound to norm exactly mmax[i] along the same
\* direction, and applied to its own result returns that result.
C10_ProjectionIdempotent ==
  /\ Len(proj_y) >= 1
       => \A s \in 1..(Len(proj_x) \div Dim) :
            IF SiteSumSq(proj_x, s) <= proj_mmax[s] * proj_mmax[s]
            THEN \A k \in SiteIdx(s) : RealEntryEq(proj_y[1], Exact(proj_x), k)
            ELSE /\ SiteNormIs(proj_y[1], s, proj_mmax[s])
                 /\ proj_y[1].v = proj_x
                 /\ proj_y[1].num[s] > 0
  /\ Len(proj_y) = 2 => AllClose(proj_y[2], proj_y[1])

\* C10 witness: both projections done on an array with one site beyond its
\* bound and one non-zero site within it.
C10_Witness ==
  /\ Len(proj_y) = 2
  /\ proj_x = <<0, 3, -4, 1, 0, 0>>
  /\ proj_mmax = <<2, 3>>

\* the threshold reg * nu * mmax[site of k], scaled by NuDen as the
\* moments are compared with it
ScaledThreshold(k) == px_reg * px_nu * M_Maxima[((k - 1) \div Dim) + 1]

\* C11: for reg, nu >= 0 every component of prox_l1(m, mmax, reg, nu) is no
\* larger in magnitude than the component of m, is zero or has its sign,
\* and its magnitude is the input's reduced by reg * nu * mmax (the
\* normalized magnitude reduced by reg * nu), floored at zero.
C11_ProxL1Shrinks ==
  px_l1 # <<>>
    => \A k \in 1..Len(px_m) :
         /\ Abs(px_l1[1][k]) <= Abs(px_m[k])
         /\ px_l1[1][k] = 0 \/ Sign(px_l1[1][k]) = Sign(px_m[k])
         /\ Abs(px_l1[1][k]) * NuDen
              = (IF Abs(px_m[k]) * NuDen > ScaledThreshold(k)
                 THEN Abs(px_m[k]) * NuDen - ScaledThreshold(k) ELSE 0)

\* C11 witness: prox_l1 has shrunk a negative component to a smaller
\* negative one and floored another, non-zero, component at zero.
C11_Witness ==
  /\ px_l1 # <<>>
  /\ px_reg > 0
  /\ px_nu > 0
  /\ \E k \in 1..Len(px_m) : px_m[k] < px_l1[1][k] /\ px_l1[1][k] < 0
  /\ \E k \in 1..Len(px_m) : px_m[k] # 0 /\ px_l1[1][k] = 0

\* C12 (as stated): prox_l0 returns every site either zeroed as a whole or
\* with all three of its components unchanged.
C12_ProxL0WholeSites ==
  px_l0 # <<>>
    => \A s \in 1..ndipoles :
         \/ \A k \in SiteIdx(s) : px_l0[1][k] = 0
         \/ \A k \in SiteIdx(s) : px_l0[1][k] = px_m[k]

\* a GPMO call has been made; its arguments as the caller gave them
GCalled == gp_outcome # "none"
CallAlg == gp_call[1]
CallKw == gp_call[2]
\* the number of dipole sites, and K cut down to it
NSites == Len(pm_grid.m_maxima)
CutK == IF CallKw.K[1] > NSites THEN NSites ELSE CallKw.K[1]
\* the call got as far as the checks of K and nhistory (lines 330-342)
ReachedKCheck == GCalled /\ gp_raised_at \notin {"A_obj", "dipole_grid_xyz"}

\* C13: a GPMO call that gives K and nhistory and reaches their check
\* raises the ValueError of line 342, with no kernel invoked, exactly when
\* nhistory exceeds K cut down to the number of sites (nhistory = K is
\* accepted), and the raise leaves pm_opt.m and pm_opt.m_proxy as they were.
C13_NHistoryAboveKRaises ==
  /\ [](ReachedKCheck /\ Given(CallKw.K) /\ Given(CallKw.nhistory)
          => IF CallKw.nhistory[1] > CutK
             THEN /\ gp_outcome = "ValueError"
                  /\ gp_raised_at = "nhistory"
                  /\ gp_kernel = <<>>
             ELSE gp_raised_at # "nhistory")
  /\ [][(pc = "Idle" /\ gp_raised_at' = "nhistory")
          => pm_m' = pm_m /\ pm_m_proxy' = pm_m_proxy]_vars

\* C13 witness: after a run that stored moments, a call whose nhistory is
\* below the K it gave but above the number of sites has been refused.
C13_Witness ==
  /\ gp_raised_at = "nhistory"
  /\ CallKw.nhistory[1] < CallKw.K[1]
  /\ CallKw.nhistory[1] > NSites
  /\ pm_m # Zeros(Dim * NSites)

\* C14: a GPMO call that gives K and reaches its check warns exactly when
\* K exceeds the number of sites, hands its kernel K cut down to that
\* number (K itself when it is no larger), and, for baseline with nhistory
\* within the cut K, raises nothing.
C14_KClampedWithWarning ==
  (ReachedKCheck /\ Given(CallKw.K))
    => /\ gp_warned <=> CallKw.K[1] > NSites
       /\ algorithm_kwargs.K = <<CutK>>
       /\ gp_kernel # <<>> => gp_kernel[1].K = CutK
       /\ (/\ CallAlg = "baseline"
           /\ Given(CallKw.nhistory) => CallKw.nhistory[1] <= CutK)
            => /\ gp_outcome \in {"running", "returned"}
               /\ gp_kernel # <<>>
               /\ gp_outcome = "returned" => k_step = CutK

\* C14 witness: a baseline call with K above the number of sites has
\* warned, run its kernel for as many commits as there are sites, and
\* returned.
C14_Witness ==
  /\ gp_outcome = "returned"
  /\ CallAlg = "baseline"
  /\ Given(CallKw.K)
  /\ CallKw.K[1] > NSites
  /\ gp_warned
  /\ k_step = NSites

\* C15 (as stated): ArbVec and ArbVec_backtracking on a grid that is not
\* Cartesian raise before any kernel is invoked.
C15_ArbVecNeedsCartesian ==
  (/\ GCalled
   /\ CallAlg \in {"ArbVec", "ArbVec_backtracking"}
   /\ pm_grid.coordinate_flag # "cartesian")
    => /\ gp_kernel = <<>>
       /\ gp_outcome = "ValueError"

\* C16: on a grid that is set up, multi, backtracking and
\* ArbVec_backtracking without dipole_grid_xyz raise the ValueError of line
\* 321 with no kernel invoked, while baseline and ArbVec without it (and
\* with nhistory within K) reach their kernel, baseline also with no K and
\* no nhistory.
C16_VariantsNeedGridXYZ ==
  (GCalled /\ pm_grid.has_A_obj /\ ~Given(CallKw.dipole_grid_xyz))
    => /\ CallAlg \in {"multi", "backtracking", "ArbVec_backtracking"}
            => /\ gp_outcome = "ValueError"
               /\ gp_raised_at = "dipole_grid_xyz"
               /\ gp_kernel = <<>>
       /\ (/\ CallAlg \in {"baseline", "ArbVec"}
           /\ (Given(CallKw.K) /\ Given(CallKw.nhistory))
                => CallKw.nhistory[1] <= CutK)
            => /\ gp_outcome \in {"running", "returned"}
               /\ gp_kernel # <<>>

\* C16 witness: ArbVec has returned from a call given neither
\* dipole_grid_xyz nor nhistory.
C16_Witness ==
  /\ gp_outcome = "returned"
  /\ CallAlg = "ArbVec"
  /\ ~Given(CallKw.dipole_grid_xyz)
  /\ gp_kernel[1].name = "GPMO_ArbVec"

\* C17 (as stated): in a baseline run the tracked error after each commit
\* is no larger than the error before it.
C17_ErrorNonIncreasing ==
  (GCalled /\ CallAlg = "baseline")
    => \A j \in 1..(Len(k_trace) - 1) : k_trace[j + 1] <= k_trace[j]

\* C19 (as stated): on the toy model baseline with K = 1 commits site 2 at
\* full strength and returns an error history that reports the residual 0
\* of that placement.
C19_ToyReportsZeroResidual ==
  (/\ gp_outcome = "returned"
   /\ CallAlg = "baseline"
   /\ CallKw.K = <<1>>
   /\ pm_grid.A_obj = ToyModel.A_obj
   /\ pm_grid.b_obj = ToyModel.b_obj)
    => /\ pm_m = <<0, 0, 0, 1, 0, 0, 0, 0, 0, 0, 0, 0>>
       /\ gp_ret[1].errors = <<0>>

\* site s of x is zero, or has one component of magnitude bound and the
\* others zero
BinarySite(x, s, bound) ==
  \/ \A k \in SiteIdx(s) : x[k] = 0
  \/ \E k \in SiteIdx(s) :
       /\ Abs(x[k]) = bound
       /\ \A j \in SiteIdx(s) \ {k} : x[j] = 0
BinaryMoments(x) ==
  /\ Len(x) = Dim * NSites
  /\ \A s \in 1..NSites : BinarySite(x, s, pm_grid.m_maxima[s])

\* C20: when GPMO has returned, every site of pm_opt.m, of pm_opt.m_proxy
\* and of every checkpoint of the returned m_history is zero or has
\* magnitude exactly mmax[i] along one coordinate axis.
C20_ReturnedMomentsBinary ==
  gp_outcome = "returned"
    => /\ BinaryMoments(pm_m)
       /\ pm_m_proxy = pm_m
       /\ \A j \in 1..Len(gp_ret[1].m_history) :
            BinaryMoments(gp_ret[1].m_history[j])

\* C20 witness: on the model with bounds 2 and 3 a run has returned both
\* sites at their bounds and a checkpoint with the second site alone.
C20_Witness ==
  /\ gp_outcome = "returned"
  /\ pm_m = <<2, 0, 0, 0, -3, 0>>
  /\ \E j \in 1..Len(gp_ret[1].m_history) :
       gp_ret[1].m_history[j] = <<0, 0, 0, 0, -3, 0>>

\* ------------------------------------------------------------------
\* C21: across any sequence of relax_and_split and GPMO calls, returning
\* or raising, no step changes pm_opt.A_obj, pm_opt.b_obj or
\* pm_opt.m_maxima, and the matrix a greedy kernel is handed is the
\* mmax-scaled product while pm_opt.A_obj stays the unscaled one.
C21_ObjectiveModelReadOnly ==
  [][/\ pm_grid'.A_obj = pm_grid.A_obj
     /\ pm_grid'.b_obj = pm_grid.b_obj
     /\ pm_grid'.m_maxima = pm_grid.m_maxima
     /\ gp_kernel' # <<>> => gp_kernel'[1].A_obj = ScaledA(pm_grid)]_vars

\* C21 witness: on one grid object a relax_and_split call has returned, a
\* GPMO call has run a kernel on the scaled matrix and returned, and the
\* matrix held by pm_opt differs from the scaled one.
C21_Witness ==
  /\ outcome = "returned"
  /\ solve_args # <<>>
  /\ gp_outcome = "returned"
  /\ gp_kernel # <<>>
  /\ gp_kernel[1].A_obj # pm_grid.A_obj
  /\ pm_grid.A_obj = RSModel.A_obj

\* ------------------------------------------------------------------
\* a baseline call that was given K has entered its kernel
BaselineRunning ==
  /\ pc = "Kernel"
  /\ algorithm = "baseline"
  /\ Given(gp_call[2].K)
\* the K of the call, cut down to the number of sites
Budget == IF gp_call[2].K[1] > GridN THEN GridN ELSE gp_call[2].K[1]
\* the sites holding a committed moment
ActiveSet(x) == {j \in 1..(Len(x) \div Dim) : \E k \in SiteIdx(j) : x[k] # 0}

\* C22: a baseline run given K is handed the clamped K as its budget, each
\* of its placements commits exactly one site that was not in the active
\* set while fewer than K are placed, it returns only when K distinct sites
\* are active (and stores exactly those), and once started it does return.
C22_BaselineStopsAfterK ==
  /\ [][/\ (pc = "Idle" /\ BaselineRunning') => gp_kernel'[1].K = Budget'
        /\ (BaselineRunning /\ k_x' # k_x) =>
             /\ k_step < Budget
             /\ k_step' = k_step + 1
             /\ \E j \in 1..GridN :
                  /\ j \notin ActiveSet(k_x)
                  /\ ActiveSet(k_x') = ActiveSet(k_x) \cup {j}
                  /\ \A k \in 1..Len(k_x) : SiteOf(k) # j => k_x'[k] = k_x[k]
        /\ (BaselineRunning /\ gp_outcome' = "returned") =>
             /\ k_step = Budget
             /\ Cardinality(ActiveSet(k_x)) = Budget
             /\ ActiveSet(pm_m') = ActiveSet(k_x)]_vars
  /\ (BaselineRunning ~> gp_outcome = "returned")

\* C22 witness: a baseline run asked for more placements than there are
\* sites has returned with every site active, and a run with a smaller K
\* is covered by the same formula.
C22_Witness ==
  /\ gp_outcome = "returned"
  /\ algorithm = "baseline"
  /\ Given(gp_call[2].K)
  /\ gp_call[2].K[1] > GridN
  /\ GridN > 1
  /\ k_step = GridN
  /\ ActiveSet(pm_m) = 1..GridN

\* ------------------------------------------------------------------
\* some per-site bound of the model is not positive
NonPositiveBound == \E s \in 1..GridN : pm_grid.m_maxima[s] <= 0

\* C23 (as stated): a relax_and_split call on a model with a bound that is
\* not positive ends in a ValueError, and no convex solve has been started.
C23_NonPositiveBoundRejected ==
  (pm_grid.has_A_obj /\ NonPositiveBound /\ Ended)
    => (outcome = "ValueError" /\ solve_args = <<>>)

\* ------------------------------------------------------------------
\* the call is a regularized one: reg_rs > 0 and the loop entered
Regularized == Called /\ reg_rs > 0 /\ Given(kwargs.max_iter_RS)

\* C24: in a regularized call the convex solves and the loop's prox steps
\* alternate, a convex solve first, and a call that has returned did a
\* prox step last; the first solve is given target prox(pm_opt.m0) and
\* start pm_opt.m0 (the m0 of the running call), solve k > 1 is given the prox output and the convex
\* output of iteration k - 1, and the prox output of iteration k is the
\* prox of the convex output of iteration k.
C24_ConvexProxAlternate ==
  Regularized
    => /\ Len(solve_args) = Len(m_history)
       /\ Len(m_proxy_history) \in {Len(m_history), Len(m_history) - 1}
       /\ Len(m_proxy_history) < Len(m_history)
            => (pc = "ProxStep" \/ outcome = "IndexError")
       /\ pc = "ConvexStep" => Len(m_proxy_history) = Len(m_history)
       /\ outcome = "returned" => Len(m_proxy_history) = Len(m_history)
       /\ (pc # "Idle" /\ Len(solve_args) >= 1)
            => /\ solve_args[1].m0 = pm_m0
               /\ solve_args[1].m_proxy
                    = Prox(prox, pm_m0, pm_grid.m_maxima, reg_rs, nu)
       /\ \A k \in 2..Len(solve_args) :
            /\ solve_args[k].m_proxy = m_proxy_history[k - 1]
            /\ solve_args[k].m0 = m_history[k - 1]
       /\ \A k \in 1..Len(m_proxy_history) :
            m_proxy_history[k]
              = Prox(prox, m_history[k], pm_grid.m_maxima, reg_rs, nu)

\* C24 witness: a regularized call has returned after two iterations whose
\* first convex output differs from the start and from its own prox.
C24_Witness ==
  /\ Regularized
  /\ outcome = "returned"
  /\ Len(solve_args) = 2
  /\ Len(m_proxy_history) = 2
  /\ m_history[1] # pm_m0
  /\ m_proxy_history[1] # m_history[1]
  /\ solve_args[1].m_proxy # solve_args[2].m_proxy

\* ------------------------------------------------------------------
\* C25: in a regularized call every iteration appends one entry to errors
\* and to m_history at its convex step and one to m_proxy_history at its
\* prox step; the three histories a call returns have one length, the
\* number of iterations run (the one that ended the loop early included;
\* i + 1 for the last value i the loop variable took, 0 when range() was
\* empty), and entry k of m_proxy_history is the prox of entry k of m_history.
C25_HistoriesSameLength ==
  Regularized
    => /\ pc = "ConvexStep"
            => /\ Len(errors) = i
               /\ Len(m_history) = i
               /\ Len(m_proxy_history) = i
       /\ pc = "ProxStep"
            => /\ Len(errors) = i + 1
               /\ Len(m_history) = i + 1
               /\ Len(m_proxy_history) = i
       /\ outcome = "returned"
            => /\ Len(Returned[1]) = Len(solve_args)
               /\ Len(Returned[2]) = Len(solve_args)
               /\ Len(Returned[3]) = Len(solve_args)
               /\ Len(solve_args)
                    = (IF kwargs.max_iter_RS[1] > 0 THEN i + 1 ELSE 0)
               /\ \A k \in 1..Len(Returned[3]) :
                    Returned[3][k]
                      = Prox(prox, Returned[2][k], pm_grid.m_maxima, reg_rs, nu)

\* C25 witness: a regularized call has returned three histories of two
\* entries, its second iteration having ended the loop early after a first
\* one whose prox changed the iterate.
C25_Witness ==
  /\ Regularized
  /\ outcome = "returned"
  /\ stop = "Converged"
  /\ Len(errors) = 2
  /\ Len(m_proxy_history) = 2
  /\ m_proxy_history[1] # m_history[1]

\* ------------------------------------------------------------------
\* a regularized call has returned with its loop run to the end of range()
RanToMaxIter == Regularized /\ outcome = "returned" /\ stop = "MaxIterReached"

\* C26 (as stated): a regularized call that returned without early
\* termination has called the convex solver max_iter_RS times and has
\* computed a prox max_iter_RS times.
C26_MaxIterCountsSolvesAndProx ==
  RanToMaxIter
    => /\ Len(solve_args) = kwargs.max_iter_RS[1]
       /\ n_prox = kwargs.max_iter_RS[1]

\* ------------------------------------------------------------------
\* the moments the kernel's assignment stands for: unit moments times the
\* bound of their site
KernelMoments == [k \in 1..Len(k_x) |-> k_x[k] * pm_grid.m_maxima[SiteOf(k)]]

\* C27: while a greedy kernel runs and after it has returned, the residual
\* it holds is A m - b computed afresh from pm_opt.A_obj, pm_opt.b_obj and
\* the moments of its current assignment, after every commit and every
\* uncommit, and the last tracked error is the squared norm of that
\* residual.
C27_ResidualConsistent ==
  gp_kernel # <<>>
    => /\ k_resid = Residual(pm_grid.A_obj, pm_grid.b_obj, KernelMoments)
       /\ k_trace[Len(k_trace)] = SqNorm(k_resid)
       /\ gp_outcome = "returned"
            => k_resid = Residual(pm_grid.A_obj, pm_grid.b_obj, pm_m)

\* C27 witness: a backtracking kernel has committed two sites and reversed
\* a commitment, the reversal having changed the residual, and a site is
\* still active.
C27_Witness ==
  /\ gp_kernel # <<>>
  /\ gp_kernel[1].name \in BacktrackingKernels
  /\ k_step >= 2
  /\ Len(k_trace) >= k_step + 2
  /\ Cardinality(ActiveSet(k_x)) >= 1
  /\ k_trace[Len(k_trace) - 1] # k_trace[Len(k_trace)]

\* ------------------------------------------------------------------
\* a step that is a relax_and_split call ending in a ValueError
RSRaises ==
  /\ pc = "Idle" /\ pc' = "Idle"
  /\ outcome' = "ValueError"
  /\ UNCHANGED <<gp_call, gp_outcome, gp_raised_at>>
\* a step that is a GPMO call ending in an exception
GPMORaises ==
  /\ pc = "Idle" /\ pc' = "Idle"
  /\ gp_outcome' \in {"ValueError", "NotImplementedError"}
  /\ UNCHANGED <<kwargs, m0_arg, outcome, raised_at>>

\* C28: a relax_and_split call that raises a ValueError (no geo_setup, both
\* regularizations, m0 of the wrong length, m0 out of bounds) and a GPMO
\* call that raises (no geo_setup, no dipole_grid_xyz, nhistory above K,
\* ArbVec_backtracking off a Cartesian grid, unknown algorithm) leave
\* pm_opt.m and pm_opt.m_proxy as they were and call no solver or kernel.
C28_FailedCallLeavesSolution ==
  [][/\ RSRaises
          => /\ pm_m' = pm_m
             /\ pm_m_proxy' = pm_m_proxy
             /\ solve_args' = <<>>
             /\ raised_at' \in {"A_obj", "L0L1", "shape", "bounds"}
     /\ GPMORaises
          => /\ pm_m' = pm_m
             /\ pm_m_proxy' = pm_m_proxy
             /\ gp_kernel' = <<>>
             /\ gp_raised_at'
                  \in {"A_obj", "dipole_grid_xyz", "nhistory", "cartesian",
                       "algorithm"}]_vars

\* C28 witness: on a pm_opt holding a non-zero solution of an earlier call,
\* a relax_and_split call has been refused for its m0 and a GPMO call for
\* its nhistory, the solution still being there.
C28_Witness ==
  /\ pm_m # Zeros(Dim * GridN)
  /\ pm_m_proxy # Zeros(Dim * GridN)
  /\ outcome = "ValueError"
  /\ raised_at = "bounds"
  /\ gp_outcome = "ValueError"
  /\ gp_raised_at = "nhistory"
  /\ gp_kernel = <<>>

\* ------------------------------------------------------------------
\* the call has computed a prox or entered the regularized loop
UsesProx ==
  \/ n_prox > 0
  \/ m_proxy_history # <<>>
  \/ Phase \in {"ConvexStep", "ProxStep", "Converged", "MaxIterReached"}
\* the call has taken, or is on, the unregularized path: one convex solve
\* at most, exactly one once returned, no prox, m == m_proxy
UnregularizedPath ==
  /\ ~UsesProx
  /\ Len(solve_args) <= 1
  /\ outcome = "returned"
       => /\ Len(solve_args) = 1
          /\ stop = "Solved"
          /\ m = m_proxy
          /\ pm_m = pm_m_proxy
\* one of reg_l0 / reg_l1 is negative and the other is exactly zero
SingleNegativeReg ==
  \/ RegL0 < 0 /\ RegL1 = 0
  \/ RegL1 < 0 /\ RegL0 = 0

\* C29 (as stated): a call uses a prox only with reg_rs > 0 and an operator
\* bound, and a call with a single negative regularization has an operator
\* bound and takes the unregularized path.
C29_NegativeRegSelectsOperator ==
  (Called /\ outcome # "ValueError")
    => /\ UsesProx => (reg_rs > 0 /\ prox \in {"prox_l0", "prox_l1"})
       /\ SingleNegativeReg
            => (prox \in {"prox_l0", "prox_l1"} /\ UnregularizedPath)

\* C29 (amended): a call uses a prox only with reg_rs > 0 and an operator
\* bound; a call with a single negative regularization takes the
\* unregularized path, with the matching operator bound and reg_rs
\* negative when the value is beyond the tolerance 1e-16 of line 203, and
\* with no operator bound and reg_rs = 0 when it is within it.
C29_ProxBoundBeforeUse ==
  (Called /\ outcome # "ValueError")
    => /\ UsesProx => (reg_rs > 0 /\ prox \in {"prox_l0", "prox_l1"})
       /\ SingleNegativeReg => UnregularizedPath
       /\ (RegL0 < -RegATol /\ RegL1 = 0)
            => (prox = "prox_l0" /\ reg_rs = RegL0)
       /\ (RegL1 < -RegATol /\ RegL0 = 0)
            => (prox = "prox_l1" /\ reg_rs = RegL1)
       /\ (SingleNegativeReg /\ RegL0 >= -RegATol /\ RegL1 >= -RegATol)
            => (prox = "unbound" /\ reg_rs = 0)

\* C29 witness: a call with reg_l1 negative beyond the tolerance and reg_l0
\* zero has bound prox_l1 and returned from the single convex solve.
C29_Witness ==
  /\ outcome = "returned"
  /\ RegL1 < -RegATol
  /\ Given(kwargs.reg_l0) /\ RegL0 = 0
  /\ prox = "prox_l1"
  /\ reg_rs < 0
  /\ n_prox = 0
  /\ Len(solve_args) = 1
  /\ pm_m # ZeroMoment

\* ------------------------------------------------------------------
\* the algorithm of the call is none of the five GPMO has a kernel for
NoSuchVariant ==
  CallAlg \notin {"baseline", "multi", "backtracking", "ArbVec",
                  "ArbVec_backtracking"}
\* the call fails the check of nhistory against the clamped K
NHistoryTooLarge ==
  /\ Given(CallKw.K)
  /\ Given(CallKw.nhistory)
  /\ CallKw.nhistory[1] > CutK

\* C30: on a grid that is set up, a GPMO call naming no implemented
\* variant calls no kernel and leaves pm_opt.m and pm_opt.m_proxy alone;
\* named 'mutual_coherence', or given dipole_grid_xyz, it raises
\* NotImplementedError when nhistory is within K (the ValueError of line
\* 342 otherwise), and any other name without dipole_grid_xyz raises the
\* ValueError of line 321.
C30_UnknownAlgorithmRaises ==
  /\ [](GCalled /\ pm_grid.has_A_obj /\ NoSuchVariant
          => /\ gp_kernel = <<>>
             /\ IF CallAlg = "mutual_coherence" \/ Given(CallKw.dipole_grid_xyz)
                THEN IF NHistoryTooLarge
                     THEN /\ gp_outcome = "ValueError"
                          /\ gp_raised_at = "nhistory"
                     ELSE /\ gp_outcome = "NotImplementedError"
                          /\ gp_raised_at = "algorithm"
                ELSE /\ gp_outcome = "ValueError"
                     /\ gp_raised_at = "dipole_grid_xyz")
  /\ [][(pc = "Idle" /\ gp_call' # <<>>
           /\ gp_call'[1] \notin {"baseline", "multi", "backtracking",
                                  "ArbVec", "ArbVec_backtracking"})
          => /\ pc' = "Idle"
             /\ pm_m' = pm_m
             /\ pm_m_proxy' = pm_m_proxy]_vars

\* C30 witness: after a run that stored moments, 'mutual_coherence' called
\* without dipole_grid_xyz has raised NotImplementedError, the moments
\* still stored.
C30_Witness ==
  /\ gp_outcome = "NotImplementedError"
  /\ CallAlg = "mutual_coherence"
  /\ ~Given(CallKw.dipole_grid_xyz)
  /\ gp_kernel = <<>>
  /\ pm_m # Zeros(Dim * NSites)

====
